---- MODULE Spec2Model ----
(***************************************************************************)
(* CalSnap (src/index.js): a Cloudflare Worker that serves per-team        *)
(* iCalendar feeds built from the TeamSnap API.                            *)
(*                                                                         *)
(* The state is the KV namespace (one variable per key family), the        *)
(* upstream TeamSnap service (teams, events, the OAuth server), the clock  *)
(* and the requests in flight.  A request handler is a process whose steps *)
(* are the code between two awaits; refreshAccessToken and                 *)
(* fetchTeamSnapData are sub-procedures with a return label.               *)
(*                                                                         *)
(* Times are epoch milliseconds.  A KV expiry (expirationTtl) is an        *)
(* environment step that removes the key at some time after the put.       *)
(***************************************************************************)
EXTENDS Integers, Sequences, FiniteSets, TLC

\* ------------------------------------------------------------------ bounds
MaxTicks == 1      \* clock readings after the first one
MaxGen   == 3      \* token sets the OAuth server issues
MaxText  == 2      \* characters of a text value
MaxWords  == 2      \* words of an upstream title
MaxItems  == 2      \* items of an upstream collection handed to the renderer
MaxEvents == 2     \* events of an upstream collection handed to the filter

\* ------------------------------------------------------------- value space
Null    == "null"            \* JS null / undefined / a missing KV key (strings)
NoNum   == 0 - 1             \* a missing numeric value
NoValue == [absent |-> TRUE]          \* a missing KV key (structured values)
Garbage == [text |-> "not-json"]      \* a stored value JSON.parse rejects

Teams    == {"t1", "t2"}
Names    == {"A", "B"}       \* upstream team names
Filters  == {"all", "games"}
EventIds == {1, 2}
CustomNames == {"Leafs"}
Secrets  == {"sek"}
AllowedEmail == "owner@x"
OtherEmail == "other@x"
Emails == {AllowedEmail, OtherEmail}

HalfSecond == 250 + 250
FirstNow   == 2 * HalfSecond
LastNow    == FirstNow + MaxTicks * HalfSecond
Clock      == {FirstNow + k * HalfSecond : k \in 0..MaxTicks}

\* A calendar token: the first 32 hex digits of SHA-256 over
\* "{teamName}:{filterType}:{clientSecret}".  The digest is modelled as
\* collision free: the token is the triple that was hashed.
Digest(data) == [hex |-> data]
ClientSecret(secret) == IF secret = Null THEN "fallback-salt" ELSE secret

UnknownToken == Digest(<<"?", "all", "?">>)     \* a token never issued

\* A key family of the KV namespace: a function from the keys that are present
\* to their values.  get of a missing key yields null.
EmptyMap == [k \in {} |-> Null]
Get(map, key, none) == IF key \in DOMAIN map THEN map[key] ELSE none
Put(map, key, value) ==
    [k \in DOMAIN map \cup {key} |-> IF k = key THEN value ELSE map[k]]
Delete(map, key) == [k \in DOMAIN map \ {key} |-> map[k]]

\* JSON.stringify({teamId, filterType}) and JSON.parse of a stored mapping.
Stringify(teamId, filterType) == [json |-> <<teamId, filterType>>]
IsJson(v) == v # Garbage /\ v # NoValue
ParseJson(v) == [teamId |-> v.json[1], filterType |-> v.json[2]]
NoTokenData == [teamId |-> Null, filterType |-> Null]

\* An ETag header value "{calendarId}-{watermark}", quotes included.
Etag(calendarId, watermark) == [tok |-> calendarId, wm |-> watermark]
NoEtag == [tok |-> Digest(<<"", "", "">>), wm |-> NoNum]   \* no header

\* A rendered .ics document: the events it has a block for (id and
\* updated_at) and the preferences and team name its titles were built with.
NoDoc == [kind |-> "none"]
Doc(evs, custom, removeOpp, teamName) ==
    [kind |-> "ics", evs |-> evs, custom |-> custom, removeOpp |-> removeOpp,
     teamName |-> teamName]

\* An upstream event (the fields the feed pipeline reads).
NoEvent == [id |-> 0]
BareItem(slot) == [id |-> slot]                 \* an item without a data list
HasData(e) == "is_canceled" \in DOMAIN e         \* event.data?.
Event(id, upd, canceled, gameType, opponent) ==
    [id |-> id, updated_at |-> upd, is_canceled |-> canceled,
     game_type |-> gameType, opponent_name |-> opponent]

\* Text: a string is the sequence of its characters.
Comma     == ","
Newline   == "\n"
Backslash == "\\"
Chars     == {"a", Comma, Newline, Backslash}
Texts     == UNION {[1..n -> Chars] : n \in 0..MaxText}

RECURSIVE Replace(_, _, _)
\* s.replace(/c/g, t)
Replace(s, c, t) ==
    IF s = <<>> THEN <<>>
    ELSE (IF Head(s) = c THEN t ELSE <<Head(s)>>) \o Replace(Tail(s), c, t)

EscapeNewline(s) == Replace(s, Newline, <<Backslash, "n">>)
EscapeComma(s)   == Replace(s, Comma, <<Backslash, Comma>>)

\* The value written after the property name of a text line, from the string
\* the code has built for it: the calendar name (customTeamName ||
\* actualTeamName), the title, the description and the location text.
TextFields == {"X-WR-CALNAME", "SUMMARY", "DESCRIPTION", "LOCATION"}
TextValue(field, s) ==
    CASE field = "X-WR-CALNAME" -> s
      [] field = "SUMMARY"      -> EscapeComma(s)
      [] field = "DESCRIPTION"  -> EscapeComma(EscapeNewline(s))
      [] field = "LOCATION"     -> EscapeComma(s)

\* Titles: a title is the sequence of its words, the empty title (falsy, as
\* an absent one) included; a name is one word.
TeamWord  == "Tigers"                       \* the upstream team name
Words     == {TeamWord, "TIGERS", "Practice"}
Titles    == UNION {[1..n -> Words] : n \in 0..MaxWords}
Lower(w)  == IF w \in {"Tigers", "TIGERS"} THEN "tigers" ELSE w
Truthy(v) == v # Null /\ v # ""                         \* a name, in a condition
Either(a, b) == IF a # <<>> THEN a ELSE b               \* a || b, on titles
NameOr(a, b) == IF a # Null /\ a # "" THEN a ELSE b     \* a || b, on names
AsTitle(name) == IF name # Null /\ name # "" THEN <<name>> ELSE <<>>

\* title.includes(name)
Includes(title, name) == \E i \in DOMAIN title : title[i] = name

\* title.replace(name, custom): the first occurrence, the case as written
ReplaceFirst(title, name, custom) ==
    IF ~Includes(title, name) THEN title
    ELSE LET first == CHOOSE i \in DOMAIN title :
                        title[i] = name /\ \A j \in 1..(i - 1) : title[j] # name
         IN  [title EXCEPT ![first] = custom]

\* title.replace(new RegExp(escaped name, 'gi'), custom)
ReplaceAllNoCase(title, name, custom) ==
    [i \in DOMAIN title |-> IF Lower(title[i]) = Lower(name) THEN custom ELSE title[i]]

\* An upstream event as the title code reads it.
TitledEvent(isGame, gameType, opponent, formatted, multi, label, name) ==
    [is_game |-> isGame, game_type |-> gameType, opponent_name |-> opponent,
     formatted_title |-> formatted, formatted_title_for_multi_team |-> multi,
     label |-> label, name |-> name]

\* Faulty variant: the opponent is named whatever the preference.
generateEventTitleNamed(event, customTeamName, actualTeamName, removeOpponentNames) ==
    <<NameOr(customTeamName, NameOr(actualTeamName, "Team")), "vs.", event.opponent_name>>

generateEventTitleSync(event, customTeamName, actualTeamName, removeOpponentNames) ==
    LET teamName      == NameOr(customTeamName, NameOr(actualTeamName, "Team"))
        originalTitle == Either(event.formatted_title_for_multi_team,
                           Either(event.formatted_title,
                             Either(AsTitle(event.name), <<"Untitled", "Event">>)))
        isGame        == event.game_type = "Game" \/ Truthy(event.opponent_name)
    IN  IF isGame /\ Truthy(event.opponent_name)
          THEN IF removeOpponentNames
                 THEN <<teamName \o ":", "Game">>
                 ELSE <<teamName, "vs.", event.opponent_name>>
          ELSE IF Truthy(actualTeamName) /\ Truthy(customTeamName)
                 THEN ReplaceAllNoCase(originalTitle, actualTeamName, customTeamName)
                 ELSE originalTitle

\* generateEventTitle: the two preferences as the store holds them
generateEventTitle(event, customName, removeOpponentNames, actualTeamName) ==
    generateEventTitleSync(event, customName, actualTeamName, removeOpponentNames = "true")

\* let customTitle: games by generateEventTitle, the others in place
customTitle(event, customName, removeOpponentNames, actualTeamName) ==
    IF event.is_game
      THEN generateEventTitle(event, customName, removeOpponentNames, actualTeamName)
      ELSE IF event.formatted_title # <<>>
        THEN <<NameOr(customName, NameOr(actualTeamName, "Team")) \o ":">>
               \o event.formatted_title
        ELSE IF event.formatted_title_for_multi_team # <<>>
          THEN IF Truthy(actualTeamName) /\ Truthy(customName)
                  /\ Includes(event.formatted_title_for_multi_team, actualTeamName)
                 THEN ReplaceFirst(event.formatted_title_for_multi_team,
                                   actualTeamName, customName)
                 ELSE event.formatted_title_for_multi_team
          ELSE Either(AsTitle(event.label), Either(AsTitle(event.name), <<"Event">>))

\* Descriptions: a description is the sequence of its lines, each ended by
\* the two characters \n in the code; a line is the sequence of its parts,
\* the literal ones and the interpolated ones, and <<>> is an empty line.
DescribedEvent(isGame, opponent, gameType, label, uniform, location, details, arrival, minutes, zone, notes) ==
    [is_game |-> isGame, opponent_name |-> opponent, game_type |-> gameType,
     label |-> label, uniform |-> uniform, location_name |-> location,
     additional_location_details |-> details, arrival_date |-> arrival,
     minutes_to_arrive_early |-> minutes, time_zone_iana_name |-> zone, notes |-> notes]

\* a number in a condition
NonZero(n) == n # NoNum /\ n # 0

\* new Date(arrival_date).toLocaleTimeString('en-US', timeOptions)
LocalTime(date, zone) == date \o " in " \o (IF Truthy(zone) THEN zone ELSE "default zone")

OpponentLine(event) ==
    IF event.is_game /\ Truthy(event.opponent_name)
      THEN IF event.game_type = "Home" THEN <<<<"Home vs.", event.opponent_name>>>>
           ELSE IF event.game_type = "Away" THEN <<<<"Away at", event.opponent_name>>>>
           ELSE <<<<NameOr(event.label, "TBD"), "vs.", event.opponent_name>>>>
      ELSE <<>>

UniformLine(event) ==
    IF Truthy(event.uniform) THEN <<<<"Uniform:", event.uniform>>>> ELSE <<>>

\* Faulty variant: the placeholder TBD is written as a detail.
LocationBlockWithPlaceholder(event) ==
    IF Truthy(event.location_name)
      THEN <<<<>>, <<event.location_name>>>>
             \o (IF Truthy(event.additional_location_details)
                   THEN <<<<event.additional_location_details>>>> ELSE <<>>)
      ELSE <<>>

LocationBlock(event) ==
    IF Truthy(event.location_name)
      THEN <<<<>>, <<event.location_name>>>>
             \o (IF Truthy(event.additional_location_details)
                    /\ event.additional_location_details # "TBD"
                   THEN <<<<event.additional_location_details>>>> ELSE <<>>)
      ELSE <<>>

ArrivalLine(event) ==
    IF event.is_game /\ Truthy(event.arrival_date) /\ NonZero(event.minutes_to_arrive_early)
      THEN <<<<"Arrival:", LocalTime(event.arrival_date, event.time_zone_iana_name),
                 "·", ToString(event.minutes_to_arrive_early), "min. early">>>>
      ELSE <<>>

NotesBlock(event) ==
    IF Truthy(event.notes) THEN <<<<>>, <<event.notes>>>> ELSE <<>>

generateEventDescription(event) ==
    OpponentLine(event) \o UniformLine(event) \o LocationBlock(event)
      \o ArrivalLine(event) \o NotesBlock(event)

\* Event blocks: the fields of an item's data list that the renderer reads
\* (an absent one is undefined), and the item itself: its data list may be
\* missing, and lookup is what the location lookup of this event comes to.
WireEvent(id, start, end, isGame, opponent, label, location, locationId) ==
    [id |-> id, start_date |-> start, end_date |-> end, is_game |-> isGame,
     opponent_name |-> opponent, game_type |-> Null, label |-> label, name |-> Null,
     formatted_title |-> <<>>, formatted_title_for_multi_team |-> <<>>,
     uniform |-> Null, location_name |-> location, location_id |-> locationId,
     additional_location_details |-> Null, arrival_date |-> Null,
     minutes_to_arrive_early |-> NoNum, time_zone_iana_name |-> Null, notes |-> Null]
Item(hasData, eventData, lookup) ==
    [has_data |-> hasData, data |-> eventData, lookup |-> lookup]

TwoHours == 2 * 60 * 60 * 1000
Address  == "1 Main St Springfield"          \* addressParts.join(' ')

\* `${value}` in a template literal
Interpolate(value) == IF value = Null THEN "undefined" ELSE value

\* Faulty variant: an event without end_date ends when it starts.
EndOfStart(eventData) ==
    IF eventData.end_date # NoNum THEN eventData.end_date ELSE eventData.start_date

\* endTime ? new Date(endTime) : new Date(startDate.getTime() + 2 * 60 * 60 * 1000)
EndOf(eventData) ==
    IF eventData.end_date # NoNum THEN eventData.end_date
                                  ELSE eventData.start_date + TwoHours

\* Faulty variant: without the address there is no LOCATION line.
LocationLineOrNone(eventData, lookup) ==
    IF Truthy(eventData.location_name) /\ (Truthy(eventData.location_id) => lookup = "address")
      THEN <<<<eventData.location_name>>
               \o (IF Truthy(eventData.location_id) THEN <<Address>> ELSE <<>>)>>
      ELSE <<>>

\* the LOCATION line: the name and, when the lookup of location_id gave an
\* address, the address; a lookup that threw is caught, a null one skipped
LocationLine(eventData, lookup) ==
    IF Truthy(eventData.location_name)
      THEN <<<<eventData.location_name>>
               \o (IF Truthy(eventData.location_id) /\ lookup = "address"
                     THEN <<Address>> ELSE <<>>)>>
      ELSE <<>>

\* the lines of a block that carry text or an id (LAST-MODIFIED and DTSTAMP,
\* a reading of the clock, are left out)
generateEventFromTemplate(eventData, title, lookup, teamId) ==
    [uid         |-> <<"teamsnap-", Interpolate(eventData.id), "@teamsnap.com">>,
     dtstart     |-> eventData.start_date,
     dtend       |-> EndOf(eventData),
     summary     |-> title,
     description |-> generateEventDescription(eventData),
     location    |-> LocationLine(eventData, lookup),
     url         |-> <<"https://go.teamsnap.com/", teamId, "/schedule/view_event/",
                       Interpolate(eventData.id)>>]

RECURSIVE renderEvents(_, _, _, _, _)
\* for (const event of events): event.data.forEach throws on an item without
\* a data list; an event without start_date is skipped
renderEvents(items, teamId, customName, removeOpponentNames, actualTeamName) ==
    IF items = <<>> THEN [threw |-> FALSE, blocks |-> <<>>]
    ELSE LET item == Head(items)
             rest == renderEvents(Tail(items), teamId, customName, removeOpponentNames,
                                  actualTeamName)
         IN  IF ~item.has_data THEN [threw |-> TRUE, blocks |-> <<>>]
             ELSE IF item.data.start_date = NoNum THEN rest
             ELSE IF rest.threw THEN rest
             ELSE [threw  |-> FALSE,
                   blocks |-> <<generateEventFromTemplate(item.data,
                                  customTitle(item.data, customName, removeOpponentNames,
                                              actualTeamName),
                                  item.lookup, teamId)>> \o rest.blocks]

NoCalc == [fn |-> "none", arg |-> <<>>, done |-> FALSE, out |-> <<>>]

VARIABLES
    kvToken,       \* calendar_token:{token}  -> JSON string | Garbage
    kvIcs,         \* calendar_{token}        -> document
    kvLastUpdate,  \* calendar_{token}_lastupdate -> epoch ms
    kvAccess,      \* oauth_access_token  (0: absent, else a token generation)
    kvRefresh,     \* oauth_refresh_token (0: absent)
    kvExpiresAt,   \* oauth_expires_at    (NoNum: absent)
    kvCustom,      \* custom_team_name_{teamId}     -> name | Null
    kvRemoveOpp,   \* remove_opponent_names_{teamId} -> "true" | Null
    envSecret,     \* env.TEAMSNAP_CLIENT_SECRET (Null: not set)
    envAllowedEmail, \* env.ALLOWED_USER_EMAIL (Null: not set)
    upEmail,       \* upstream: the email of the account that grants the tokens
    upNames,       \* upstream: team id -> team name
    upEvents,      \* upstream: team id -> event id -> event | NoEvent
    upGen,         \* OAuth server: last token generation issued
    upLive,        \* OAuth server: access token generations it accepts
    upRefresh,     \* OAuth server: the refresh token it accepts (0: none)
    now,           \* Date.now()
    proc,          \* the requests in flight: process -> its locals
    issued,        \* history: every token issue of the calendar listing
    lastRender,    \* history: calendar id -> the last newly rendered 200 response
    calc,          \* a function of the pipeline on its own: arguments and result
    expiresOf      \* history: the token set whose expires_in wrote oauth_expires_at

kv   == <<kvToken, kvIcs, kvLastUpdate, kvAccess, kvRefresh, kvExpiresAt,
          kvCustom, kvRemoveOpp>>
up   == <<upNames, upEmail, upEvents, upGen, upLive, upRefresh>>
env  == <<envSecret, envAllowedEmail>>
hist == <<issued, lastRender, calc, expiresOf>>
vars == <<kv, up, env, now, proc, hist>>

\* Faulty variant: the time of the call is hashed too.
generateTimedToken(teamId, filterType, secret, teamName) ==
    Digest(<<teamName, filterType, ClientSecret(secret), now>>)

\* const data = `${teamName}:${filterType}:${clientSecret}`; the team id is
\* not part of the hashed data
generateCalendarToken(teamId, filterType, secret, teamName) ==
    Digest(<<teamName, filterType, ClientSecret(secret)>>)

\* ------------------------------------------------------------- processes
Feeds == {"f1", "f2"}        \* handlers of GET /{token}.ics
Apis  == {"api"}             \* handler of /api/teams and /api/team-settings
Procs == Feeds \cup Apis

NoEndpoint == [kind |-> Null, id |-> Null]
Idle ==
    [pc |-> "idle",
     \* the request
     id |-> UnknownToken, cacheOff |-> FALSE, forceRefresh |-> FALSE,
     inm |-> NoEtag, ims |-> NoNum, forceText |-> FALSE, format |-> Null,
     path |-> Null, team |-> Null, customName |-> Null, removeOpp |-> Null,
     \* locals of serveCalendar
     mapping |-> NoValue, tokenData |-> NoTokenData, cachedIcs |-> NoDoc, cachedLastUpdate |-> NoNum,
     accessToken |-> 0, actualTeamName |-> Null, evAnswer |-> Null,
     events |-> {}, latest |-> 0,
     icsContent |-> NoDoc,
     \* locals of handleTeamsApi / handleTeamSettingsApi
     todo |-> {}, dels |-> <<>>,
     \* fetchTeamSnapData: endpoint, its accessToken, result, return label
     endpoint |-> NoEndpoint, fdTok |-> 0, fdResult |-> Null, fdData |-> Null,
     ret |-> Null,
     \* refreshAccessToken: the refresh token read, tokenData, return label
     rfTok |-> 0, newTok |-> 0, newRefresh |-> 0, rret |-> Null,
     \* the response
     status |-> 0, body |-> NoDoc, etag |-> NoEtag, lastModified |-> NoNum,
     cacheControl |-> Null, contentType |-> Null, disposition |-> Null,
     \* what the request did, in order: "up:..." upstream calls, "put:..." and
     \* "del:..." store writes
     log |-> <<>>,
     \* the store and upstream as they were when the request arrived
     hadTokens |-> FALSE, prior |-> [etag |-> NoEtag],
     \* the listing has issued a token that an earlier listing issued
     reissued |-> FALSE]

Goto(p, rec) == proc' = [proc EXCEPT ![p] = rec]
At(p, label) == proc[p].pc = label
Logged(l, x) == Append(l, x)
Count(l, x)  == Cardinality({i \in DOMAIN l : l[i] = x})
UpCalls(l)   == {i \in DOMAIN l : l[i] \in {"up:token", "up:team", "up:events",
                                              "up:me", "up:teams", "up:location"}}

\* ------------------------------------------------- refreshAccessToken
TokenLife == 2 * HalfSecond      \* tokenData.expires_in * 1000

\* const refreshToken = await get('oauth_refresh_token'); if (!refreshToken) return null
RefreshGet(p) ==
    /\ At(p, "rfGet")
    /\ IF kvRefresh = 0
         THEN Goto(p, [proc[p] EXCEPT !.pc = proc[p].rret, !.newTok = 0])
         ELSE Goto(p, [proc[p] EXCEPT !.pc = "rfPost", !.rfTok = kvRefresh])
    /\ UNCHANGED <<kv, up, env, now, hist>>

\* POST to the token endpoint answers ok: a new token set
RefreshPostOk(p) ==
    /\ At(p, "rfPost")
    /\ proc[p].rfTok = upRefresh
    /\ upGen < MaxGen
    /\ upGen' = upGen + 1
    /\ upLive' = upLive \cup {upGen + 1}
    /\ upRefresh' = upGen + 1
    /\ Goto(p, [proc[p] EXCEPT !.pc = "rfPutAccess",
                               !.newTok = upGen + 1, !.newRefresh = upGen + 1,
                               !.log = Logged(@, "up:token")])
    /\ UNCHANGED <<kv, upNames, upEmail, upEvents, env, now, hist>>

\* Faulty variant: a failed exchange discards the stored refresh token.
RefreshPostFailForgets(p) ==
    /\ At(p, "rfPost")
    /\ kvRefresh' = 0
    /\ Goto(p, [proc[p] EXCEPT !.pc = proc[p].rret, !.newTok = 0,
                               !.log = Logged(@, "up:token")])
    /\ UNCHANGED <<kvToken, kvIcs, kvLastUpdate, kvAccess, kvExpiresAt, kvCustom,
                   kvRemoveOpp, up, env, now, hist>>

\* POST to the token endpoint answers non-ok, or fetch throws: return null
RefreshPostFail(p) ==
    /\ At(p, "rfPost")
    /\ Goto(p, [proc[p] EXCEPT !.pc = proc[p].rret, !.newTok = 0,
                               !.log = Logged(@, "up:token")])
    /\ UNCHANGED <<kv, up, env, now, hist>>

RefreshPutAccess(p) ==
    /\ At(p, "rfPutAccess")
    /\ kvAccess' = proc[p].newTok
    /\ Goto(p, [proc[p] EXCEPT
                  !.pc = IF proc[p].newRefresh # 0 THEN "rfPutRefresh" ELSE "rfPutExpires",
                  !.log = Logged(@, "put:access")])
    /\ UNCHANGED <<kvToken, kvIcs, kvLastUpdate, kvRefresh, kvExpiresAt, kvCustom,
                   kvRemoveOpp, up, env, now, hist>>

RefreshPutRefresh(p) ==
    /\ At(p, "rfPutRefresh")
    /\ kvRefresh' = proc[p].newRefresh
    /\ Goto(p, [proc[p] EXCEPT !.pc = "rfPutExpires", !.log = Logged(@, "put:refresh")])
    /\ UNCHANGED <<kvToken, kvIcs, kvLastUpdate, kvAccess, kvExpiresAt, kvCustom,
                   kvRemoveOpp, up, env, now, hist>>

RefreshPutExpires(p) ==
    /\ At(p, "rfPutExpires")
    /\ kvExpiresAt' = now + TokenLife
    /\ expiresOf' = proc[p].newTok
    /\ Goto(p, [proc[p] EXCEPT !.pc = proc[p].rret, !.log = Logged(@, "put:expires")])
    /\ UNCHANGED <<kvToken, kvIcs, kvLastUpdate, kvAccess, kvRefresh, kvCustom,
                   kvRemoveOpp, up, env, now, issued, lastRender, calc>>

refreshAccessToken(p) ==
    \/ RefreshGet(p)
    \/ RefreshPostOk(p)
    \/ RefreshPostFail(p)
    \/ RefreshPutAccess(p)
    \/ RefreshPutRefresh(p)
    \/ RefreshPutExpires(p)

\* ------------------------------------------------- fetchTeamSnapData
\* What the API answers for an endpoint.
Answer(e) ==
    CASE e.kind = "team" -> IF e.id \in Teams THEN upNames[e.id] ELSE Null
      [] e.kind = "me"   -> upEmail
      [] OTHER           -> e.kind

CallFetch(rec, e, label) ==
    [rec EXCEPT !.pc = "fdGet", !.endpoint = e, !.ret = label,
                !.fdResult = Null, !.fdData = Null]

\* let accessToken = await get('oauth_access_token'); if (!accessToken) refresh
FetchGet(p) ==
    /\ At(p, "fdGet")
    /\ IF kvAccess = 0
         THEN Goto(p, [proc[p] EXCEPT !.pc = "rfGet", !.rret = "fdRefreshed"])
         ELSE Goto(p, [proc[p] EXCEPT !.pc = "fdFetch", !.fdTok = kvAccess])
    /\ UNCHANGED <<kv, up, env, now, hist>>

\* after the first refresh: the new access token, or return null
FetchRefreshed(p) ==
    /\ At(p, "fdRefreshed")
    /\ IF proc[p].newTok # 0
         THEN Goto(p, [proc[p] EXCEPT !.pc = "fdFetch", !.fdTok = proc[p].newTok])
         ELSE Goto(p, [proc[p] EXCEPT !.pc = proc[p].ret, !.fdResult = "null"])
    /\ UNCHANGED <<kv, up, env, now, hist>>

\* the API accepts the token: response.ok, the JSON is returned
FetchOk(p) ==
    /\ At(p, "fdFetch")
    /\ proc[p].fdTok \in upLive
    /\ Goto(p, [proc[p] EXCEPT !.pc = proc[p].ret, !.fdResult = "ok",
                               !.fdData = Answer(proc[p].endpoint),
                               !.log = Logged(@, "up:" \o proc[p].endpoint.kind)])
    /\ UNCHANGED <<kv, up, env, now, hist>>

\* response.status === 401: refresh, then retry
FetchUnauthorized(p) ==
    /\ At(p, "fdFetch")
    /\ proc[p].fdTok \notin upLive
    /\ Goto(p, [proc[p] EXCEPT !.pc = "rfGet", !.rret = "fdRetry",
                               !.log = Logged(@, "up:" \o proc[p].endpoint.kind)])
    /\ UNCHANGED <<kv, up, env, now, hist>>

\* any other non-ok answer: return null
FetchFail(p) ==
    /\ At(p, "fdFetch")
    /\ Goto(p, [proc[p] EXCEPT !.pc = proc[p].ret, !.fdResult = "null",
                               !.log = Logged(@, "up:" \o proc[p].endpoint.kind)])
    /\ UNCHANGED <<kv, up, env, now, hist>>

\* fetch rejects (network error): the exception goes to the caller
FetchThrow(p) ==
    /\ At(p, "fdFetch")
    /\ Goto(p, [proc[p] EXCEPT !.pc = proc[p].ret, !.fdResult = "throw",
                               !.log = Logged(@, "up:" \o proc[p].endpoint.kind)])
    /\ UNCHANGED <<kv, up, env, now, hist>>

\* after the refresh that follows a 401: one retry with the new token
FetchRetry(p) ==
    /\ At(p, "fdRetry")
    /\ IF proc[p].newTok = 0
         THEN Goto(p, [proc[p] EXCEPT !.pc = proc[p].ret, !.fdResult = "null"])
         ELSE \/ /\ proc[p].newTok \in upLive
                 /\ Goto(p, [proc[p] EXCEPT !.pc = proc[p].ret, !.fdResult = "ok",
                                !.fdData = Answer(proc[p].endpoint),
                                !.log = Logged(@, "up:" \o proc[p].endpoint.kind)])
              \/ Goto(p, [proc[p] EXCEPT !.pc = proc[p].ret, !.fdResult = "null",
                                !.log = Logged(@, "up:" \o proc[p].endpoint.kind)])
    /\ UNCHANGED <<kv, up, env, now, hist>>

fetchTeamSnapData(p) ==
    \/ FetchGet(p)
    \/ FetchRefreshed(p)
    \/ FetchOk(p)
    \/ FetchUnauthorized(p)
    \/ FetchFail(p)
    \/ FetchThrow(p)
    \/ FetchRetry(p)


\* ------------------------------------------------------ serveCalendar
NoRender == [etag |-> NoEtag]

Respond(rec, status, body, etag, lastModified) ==
    [rec EXCEPT !.pc = "done", !.status = status, !.body = body, !.etag = etag,
                !.lastModified = lastModified]

CacheControl == "public, max-age=3600"
Calendar == [contentType |-> "text/calendar", disposition |-> "attachment"]
PlainText == [contentType |-> "text/plain", disposition |-> "inline"]

\* the headers of a 200 response
WithHeaders(rec, kind) ==
    [rec EXCEPT !.cacheControl = CacheControl, !.contentType = kind.contentType,
                !.disposition = kind.disposition]

\* GET /{calendarId}.txt (forceText), or GET /{calendarId}.ics with or
\* without format=text, arrives
FeedStartText(p, id, forceText, format) ==
    /\ At(p, "idle")
    /\ Goto(p, [Idle EXCEPT !.pc = "parse", !.path = "feed", !.id = id,
                            !.forceText = forceText, !.format = format,
                            !.hadTokens = (kvAccess # 0 \/ kvRefresh # 0),
                            !.prior = Get(lastRender, id, NoRender)])
    /\ UNCHANGED <<kv, up, env, now, hist>>

\* GET /{calendarId}.ics arrives
FeedStart(p, id, cacheOff, forceRefresh, inm, ims) ==
    /\ At(p, "idle")
    /\ Goto(p, [Idle EXCEPT !.pc = "parse", !.path = "feed", !.id = id,
                            !.cacheOff = cacheOff, !.forceRefresh = forceRefresh,
                            !.inm = inm, !.ims = ims,
                            !.hadTokens = (kvAccess # 0 \/ kvRefresh # 0),
                            !.prior = Get(lastRender, id, NoRender)])
    /\ UNCHANGED <<kv, up, env, now, hist>>

\* if (cachedIcs && cachedLastUpdate)
HasCache(rec) == rec.cachedIcs # NoDoc /\ rec.cachedLastUpdate # NoNum

\* if (ifModifiedSince) ... lastModified <= ifModifiedSinceDate
ImsHit(rec) == rec.ims # NoNum /\ rec.cachedLastUpdate <= rec.ims

\* if (ifNoneMatch && ifNoneMatch === etag)
InmHit(rec) == rec.inm # NoEtag /\ rec.inm = Etag(rec.id, rec.cachedLastUpdate)

\* Faulty variant: the If-None-Match comparison is left out.
NotModifiedByDateOnly(rec) == HasCache(rec) /\ ImsHit(rec)

NotModified(rec) == HasCache(rec) /\ (ImsHit(rec) \/ InmHit(rec))

\* The code that follows the cache reads and deletes, up to the next await:
\* a 304, or on to the access token.
\* Faulty variant: the 304 echoes the validator the client sent.
NotModifiedEcho(rec) ==
    [Respond(rec, 304, NoDoc, rec.inm, rec.cachedLastUpdate)
       EXCEPT !.cacheControl = CacheControl]

\* new Response(null, { status: 304, headers: Last-Modified, ETag, Cache-Control })
NotModifiedResponse(rec) ==
    [Respond(rec, 304, NoDoc, Etag(rec.id, rec.cachedLastUpdate), rec.cachedLastUpdate)
       EXCEPT !.cacheControl = CacheControl]

Conditional(rec) ==
    IF NotModified(rec)
      THEN NotModifiedResponse(rec)
      ELSE [rec EXCEPT !.pc = "auth"]

\* Faulty variant: refresh=true clears the cache keys before the mapping is
\* looked at.
parseAfterRefresh(rec, mapping) ==
    IF rec.forceRefresh
      THEN [rec EXCEPT !.pc = "delIcs", !.mapping = mapping]
      ELSE IF mapping = NoValue
        THEN Respond([rec EXCEPT !.mapping = mapping], 400, NoDoc, NoEtag, NoNum)
        ELSE [rec EXCEPT !.mapping = mapping, !.tokenData = ParseJson(mapping),
                         !.pc = "readIcs"]

\* const tokenData = await parseCalendarToken(calendarId, env)
\*   mapping ? JSON.parse(mapping) : null
parseCalendarToken(rec, mapping) ==
    IF mapping = NoValue
      THEN Respond([rec EXCEPT !.mapping = mapping], 400, NoDoc, NoEtag, NoNum)
      ELSE IF ~IsJson(mapping)
        THEN [rec EXCEPT !.pc = "threw", !.mapping = mapping]   \* SyntaxError, not caught
        ELSE LET r == [rec EXCEPT !.mapping = mapping, !.tokenData = ParseJson(mapping)]
             IN  IF r.cacheOff \/ r.forceRefresh
                   THEN IF r.forceRefresh THEN [r EXCEPT !.pc = "delIcs"]
                                          ELSE Conditional(r)
                   ELSE [r EXCEPT !.pc = "readIcs"]

FeedParse(p) ==
    /\ At(p, "parse")
    /\ Goto(p, parseCalendarToken(proc[p], Get(kvToken, proc[p].id, NoValue)))
    /\ UNCHANGED <<kv, up, env, now, hist>>

\* const cachedIcs = await get(cacheKey)
FeedReadIcs(p) ==
    /\ At(p, "readIcs")
    /\ Goto(p, [proc[p] EXCEPT !.pc = "readLastUpdate", !.cachedIcs = Get(kvIcs, proc[p].id, NoDoc)])
    /\ UNCHANGED <<kv, up, env, now, hist>>

\* const cachedLastUpdate = await get(lastUpdateKey); then the conditional check
FeedReadLastUpdate(p) ==
    /\ At(p, "readLastUpdate")
    /\ Goto(p, Conditional([proc[p] EXCEPT
                    !.cachedLastUpdate = Get(kvLastUpdate, proc[p].id, NoNum)]))
    /\ UNCHANGED <<kv, up, env, now, hist>>

\* Faulty variant: refresh=true leaves the cached document in the store.
FeedKeepIcs(p) ==
    /\ At(p, "delIcs")
    /\ Goto(p, [proc[p] EXCEPT !.pc = "delLastUpdate"])
    /\ UNCHANGED <<kv, up, env, now, hist>>

\* if (forceRefresh) await delete(cacheKey)
FeedDeleteIcs(p) ==
    /\ At(p, "delIcs")
    /\ kvIcs' = Delete(kvIcs, proc[p].id)
    /\ Goto(p, [proc[p] EXCEPT !.pc = "delLastUpdate", !.log = Logged(@, "del:ics")])
    /\ UNCHANGED <<kvToken, kvLastUpdate, kvAccess, kvRefresh, kvExpiresAt, kvCustom,
                   kvRemoveOpp, up, env, now, hist>>

\* await delete(lastUpdateKey); then the conditional check (on nulls)
FeedDeleteLastUpdate(p) ==
    /\ At(p, "delLastUpdate")
    /\ kvLastUpdate' = Delete(kvLastUpdate, proc[p].id)
    /\ Goto(p, Conditional([proc[p] EXCEPT !.log = Logged(@, "del:lastupdate")]))
    /\ UNCHANGED <<kvToken, kvIcs, kvAccess, kvRefresh, kvExpiresAt, kvCustom,
                   kvRemoveOpp, up, env, now, hist>>

TeamEndpoint(teamId) == [kind |-> "team", id |-> teamId]

\* let accessToken = await get('oauth_access_token'); if (!accessToken) refresh
FeedAuth(p) ==
    /\ At(p, "auth")
    /\ IF kvAccess # 0
         THEN Goto(p, CallFetch([proc[p] EXCEPT !.accessToken = kvAccess],
                                TeamEndpoint(proc[p].tokenData.teamId), "events"))
         ELSE Goto(p, [proc[p] EXCEPT !.pc = "rfGet", !.rret = "authRefreshed"])
    /\ UNCHANGED <<kv, up, env, now, hist>>

\* Faulty variant: the result of the refresh is not looked at.
FeedAuthUnchecked(p) ==
    /\ At(p, "authRefreshed")
    /\ Goto(p, CallFetch([proc[p] EXCEPT !.accessToken = proc[p].newTok],
                         TeamEndpoint(proc[p].tokenData.teamId), "events"))
    /\ UNCHANGED <<kv, up, env, now, hist>>

\* if (newTokens) accessToken = newTokens.access_token; else 401
FeedAuthRefreshed(p) ==
    /\ At(p, "authRefreshed")
    /\ IF proc[p].newTok # 0
         THEN Goto(p, CallFetch([proc[p] EXCEPT !.accessToken = proc[p].newTok],
                                TeamEndpoint(proc[p].tokenData.teamId), "events"))
         ELSE Goto(p, Respond(proc[p], 401, NoDoc, NoEtag, NoNum))
    /\ UNCHANGED <<kv, up, env, now, hist>>

\* events.filter(event => !isCanceled)
NotCanceled(e) == ~(HasData(e) /\ e.is_canceled)

\* Faulty variant: any game type counts.
GamesFilterAnyType(e) ==
    HasData(e) /\ (e.game_type # Null \/ e.opponent_name \notin {Null, ""})

\* gameType === 'Game' || opponentName  (an empty name is not truthy)
GamesFilter(e) ==
    HasData(e) /\ (e.game_type = "Game" \/ e.opponent_name \notin {Null, ""})

\* events.filter(not cancelled), then for "games" events.filter(game): the
\* event list in upstream order
applyFilter(events, filterType) ==
    LET live == SelectSeq(events, NotCanceled)
    IN  IF filterType = "games" THEN SelectSeq(live, GamesFilter) ELSE live

Filtered(items, filterType) ==
    {e \in items : NotCanceled(e) /\ (filterType = "games" => GamesFilter(e))}

Items(teamId) ==
    IF teamId \in Teams
      THEN {upEvents[teamId][i] : i \in EventIds} \ {NoEvent}
      ELSE {}

Max(S) == CHOOSE x \in S : \A y \in S : y <= x

\* let latestEventUpdate = 0; events.forEach(... if (updateTime > latest) ...)
LatestEventUpdate(events) ==
    Max({0} \cup {e.updated_at : e \in {x \in events : HasData(x)}})

\* Faulty variant: an equal watermark counts as newer.
CacheFreshStrict(rec) == HasCache(rec) /\ rec.latest < rec.cachedLastUpdate

\* if (cachedIcs && cachedLastUpdate && latestEventUpdate <= parseInt(cachedLastUpdate))
CacheFresh(rec) == HasCache(rec) /\ rec.latest <= rec.cachedLastUpdate

\* the team name of the best-effort lookup (null when it failed or threw)
TeamNameOf(rec) == IF rec.fdResult = "ok" THEN rec.fdData ELSE Null

\* return new Response(cachedIcs, ...): the calendar headers, whatever the
\* display format asked for
RespondCached(rec) ==
    WithHeaders(Respond(rec, 200, rec.cachedIcs, Etag(rec.id, rec.cachedLastUpdate),
                        rec.cachedLastUpdate),
                Calendar)

\* the event fetch answers ok: filter, watermark, then the cached document or
\* on to rendering
FeedEventsOk(p) ==
    /\ At(p, "events")
    /\ proc[p].accessToken \in upLive
    /\ LET evs == Filtered(Items(proc[p].tokenData.teamId), proc[p].tokenData.filterType)
           r   == [proc[p] EXCEPT !.actualTeamName = TeamNameOf(proc[p]),
                                  !.evAnswer = "ok",
                                  !.events = evs,
                                  !.latest = LatestEventUpdate(evs),
                                  !.log = Logged(@, "up:events")]
       IN  Goto(p, IF CacheFresh(r) THEN RespondCached(r)
                                    ELSE [r EXCEPT !.pc = "render"])
    /\ UNCHANGED <<kv, up, env, now, hist>>

\* What upstream may answer to an event fetch that does not succeed: 401 to
\* a token it does not accept, another non-ok status, or no answer at all
\* (fetch throws).
Failures(accessToken) ==
    IF accessToken \in upLive THEN {"error", "throw"} ELSE {"401", "error", "throw"}

\* Faulty variant: a failed event fetch is taken for an empty event list.
EventsFailAsEmpty(rec, answer) ==
    [rec EXCEPT !.actualTeamName = TeamNameOf(rec), !.evAnswer = answer,
                !.log = Logged(@, "up:events"), !.pc = "render"]

\* if (!teamEventsResponse.ok) return 500; catch (error) return 500
EventsFailed(rec, answer) ==
    Respond([rec EXCEPT !.actualTeamName = TeamNameOf(rec), !.evAnswer = answer,
                        !.log = Logged(@, "up:events")],
            500, NoDoc, NoEtag, NoNum)

\* the event fetch answers non-ok, or throws: 500
FeedEventsFail(p) ==
    /\ At(p, "events")
    /\ \E answer \in Failures(proc[p].accessToken) :
         Goto(p, EventsFailed(proc[p], answer))
    /\ UNCHANGED <<kv, up, env, now, hist>>

\* The document: one block per event, titled with the stored preferences.
Render(rec) ==
    Doc({<<e.id, e.updated_at>> : e \in rec.events},
        kvCustom[rec.tokenData.teamId], kvRemoveOpp[rec.tokenData.teamId],
        rec.actualTeamName)

\* Faulty variant: the validators are always built from the clock.
Respond200Now(rec) ==
    WithHeaders(Respond(rec, 200, rec.icsContent, Etag(rec.id, now), now), Calendar)

\* const formatAsText = forceText || url.searchParams.get('format') === 'text'
FormatAsText(rec) == rec.forceText \/ rec.format = "text"

\* const lastModified = new Date(latestEventUpdate || Date.now())
\* const etag = `"${calendarId}-${latestEventUpdate || Date.now()}"`
Respond200(rec) ==
    LET wm == IF rec.latest # 0 THEN rec.latest ELSE now
    IN  WithHeaders(Respond(rec, 200, rec.icsContent, Etag(rec.id, wm), wm),
                    IF FormatAsText(rec) THEN PlainText ELSE Calendar)

Rendered(rec) == [etag |-> rec.etag, doc |-> rec.body, latest |-> rec.latest,
                  events |-> rec.events]

\* Faulty variant: the document is cached whatever its watermark.
ShouldCacheAlways(rec) == TRUE

\* if (latestEventUpdate > 0): the two puts
ShouldCache(rec) == rec.latest > 0

\* the custom name, the titles and the document are built; with a watermark
\* of 0 nothing is cached and the response follows
FeedRender(p) ==
    /\ At(p, "render")
    /\ IF \E e \in proc[p].events : ~HasData(e)
         THEN /\ Goto(p, [proc[p] EXCEPT !.pc = "threw"])   \* event.data.forEach: TypeError
              /\ UNCHANGED lastRender
         ELSE LET r == [proc[p] EXCEPT !.icsContent = Render(proc[p])]
              IN  IF ShouldCache(r)
                    THEN /\ Goto(p, [r EXCEPT !.pc = "putIcs"])
                         /\ UNCHANGED lastRender
                    ELSE /\ Goto(p, Respond200(r))
                         /\ lastRender' = Put(lastRender, r.id, Rendered(Respond200(r)))
    /\ UNCHANGED <<kv, up, env, now, issued, calc, expiresOf>>

\* await put(cacheKey, icsContent, { expirationTtl: 3600 })
FeedPutIcs(p) ==
    /\ At(p, "putIcs")
    /\ kvIcs' = Put(kvIcs, proc[p].id, proc[p].icsContent)
    /\ Goto(p, [proc[p] EXCEPT !.pc = "putLastUpdate", !.log = Logged(@, "put:ics")])
    /\ UNCHANGED <<kvToken, kvLastUpdate, kvAccess, kvRefresh, kvExpiresAt, kvCustom,
                   kvRemoveOpp, up, env, now, hist>>

\* await put(lastUpdateKey, latestEventUpdate.toString(), ...); the 200 response
FeedPutLastUpdate(p) ==
    /\ At(p, "putLastUpdate")
    /\ kvLastUpdate' = Put(kvLastUpdate, proc[p].id, proc[p].latest)
    /\ LET r == Respond200([proc[p] EXCEPT !.log = Logged(@, "put:lastupdate")])
       IN  /\ Goto(p, r)
           /\ lastRender' = Put(lastRender, r.id, Rendered(r))
    /\ UNCHANGED <<kvToken, kvIcs, kvAccess, kvRefresh, kvExpiresAt, kvCustom,
                   kvRemoveOpp, up, env, now, issued, calc, expiresOf>>

\* the response has been sent (or the exception reported): the handler ends
Finish(p) ==
    /\ proc[p].pc \in {"done", "threw"}
    /\ Goto(p, Idle)
    /\ UNCHANGED <<kv, up, env, now, hist>>

serveCalendar(p) ==
    \/ FeedParse(p)
    \/ FeedReadIcs(p)
    \/ FeedReadLastUpdate(p)
    \/ FeedDeleteIcs(p)
    \/ FeedDeleteLastUpdate(p)
    \/ FeedAuth(p)
    \/ FeedAuthRefreshed(p)
    \/ FeedEventsOk(p)
    \/ FeedEventsFail(p)
    \/ FeedRender(p)
    \/ FeedPutIcs(p)
    \/ FeedPutLastUpdate(p)


\* ------------------------------------------- handleApiRequest and below
\* a request under /api/ arrives: GET /api/teams, or POST /api/team-settings
\* with {teamId, customName, removeOpponentNames}
ApiStart(p, path, team, customName, removeOpp) ==
    /\ At(p, "idle")
    /\ Goto(p, [Idle EXCEPT !.pc = "iaGet", !.path = path, !.team = team,
                            !.customName = customName, !.removeOpp = removeOpp,
                            !.hadTokens = (kvAccess # 0 \/ kvRefresh # 0)])
    /\ UNCHANGED <<kv, up, env, now, hist>>

\* the handler handleApiRequest dispatches to
Dispatch(rec) ==
    IF rec.path = "teams"
      THEN CallFetch(rec, [kind |-> "me", id |-> Null], "lsMe")
      ELSE IF rec.path = "settingsGet"
        THEN [rec EXCEPT !.pc = "stRead"]
        ELSE [rec EXCEPT !.pc = "stPutCustom"]

NotAuthenticated(rec) == Respond(rec, 401, NoDoc, NoEtag, NoNum)

\* Faulty variant: the recorded expiry is not looked at.
isAuthenticatedAnyAge(p) ==
    /\ At(p, "iaGet")
    /\ Goto(p, IF kvAccess = 0 THEN NotAuthenticated(proc[p]) ELSE Dispatch(proc[p]))
    /\ UNCHANGED <<kv, up, env, now, hist>>

\* isAuthenticated: no access token: false; past oauth_expires_at: refresh
isAuthenticated(p) ==
    /\ At(p, "iaGet")
    /\ IF kvAccess = 0
         THEN Goto(p, NotAuthenticated(proc[p]))
         ELSE IF kvExpiresAt # NoNum /\ now > kvExpiresAt
           THEN Goto(p, [proc[p] EXCEPT !.pc = "rfGet", !.rret = "iaRefreshed"])
           ELSE Goto(p, Dispatch(proc[p]))
    /\ UNCHANGED <<kv, up, env, now, hist>>

\* return !!newTokens
IsAuthRefreshed(p) ==
    /\ At(p, "iaRefreshed")
    /\ Goto(p, IF proc[p].newTok # 0 THEN Dispatch(proc[p])
                                     ELSE NotAuthenticated(proc[p]))
    /\ UNCHANGED <<kv, up, env, now, hist>>

\* handleTeamsApi: /me answered (or not), the email check, then the teams
ListMe(p) ==
    /\ At(p, "lsMe")
    /\ Goto(p, IF proc[p].fdResult # "ok"
                 THEN Respond(proc[p], 500, NoDoc, NoEtag, NoNum)
                 ELSE IF envAllowedEmail = Null \/ proc[p].fdData # envAllowedEmail
                   THEN Respond(proc[p], 403, NoDoc, NoEtag, NoNum)
                   ELSE CallFetch(proc[p], [kind |-> "teams", id |-> Null], "lsTeams"))
    /\ UNCHANGED <<kv, up, env, now, hist>>

\* the active teams answered (or not): Promise.all(teams.map(...)) starts
ListTeams(p) ==
    /\ At(p, "lsTeams")
    /\ Goto(p, IF proc[p].fdResult # "ok"
                 THEN Respond(proc[p], 500, NoDoc, NoEtag, NoNum)
                 ELSE [proc[p] EXCEPT !.pc = "lsIssue", !.todo = Teams \X Filters])
    /\ UNCHANGED <<kv, up, env, now, hist>>

\* One issue of the listing: the token of (team, filter) and the put of its
\* mapping.  A team's "all" mapping is put before its "games" mapping; the
\* puts of different teams come in any order.
Issue(teamId, filterType) ==
    LET token == generateCalendarToken(teamId, filterType, envSecret, upNames[teamId])
    IN  [teamId |-> teamId, filterType |-> filterType, teamName |-> upNames[teamId],
         secret |-> envSecret, token |-> token,
         value |-> Stringify(teamId, filterType)]

ListIssue(p, teamId, filterType) ==
    /\ At(p, "lsIssue")
    /\ <<teamId, filterType>> \in proc[p].todo
    /\ filterType = "games" => <<teamId, "all">> \notin proc[p].todo
    /\ LET i    == Issue(teamId, filterType)
           left == proc[p].todo \ {<<teamId, filterType>>}
           r    == [proc[p] EXCEPT !.todo = left, !.log = Logged(@, "put:token"),
                                   !.reissued = @ \/ i \in issued]
       IN  /\ kvToken' = Put(kvToken, i.token, i.value)
           /\ issued' = issued \cup {i}
           /\ Goto(p, IF left = {} THEN Respond(r, 200, NoDoc, NoEtag, NoNum) ELSE r)
    /\ UNCHANGED <<kvIcs, kvLastUpdate, kvAccess, kvRefresh, kvExpiresAt, kvCustom,
                   kvRemoveOpp, up, env, now, lastRender, calc, expiresOf>>

\* handleTeamSettingsApi, GET: the two settings of the team are read and returned
SettingsRead(p) ==
    /\ At(p, "stRead")
    /\ Goto(p, Respond([proc[p] EXCEPT !.log = Logged(@, "get:custom")], 200,
                       <<kvCustom[proc[p].team], kvRemoveOpp[proc[p].team] = "true">>,
                       NoEtag, NoNum))
    /\ UNCHANGED <<kv, up, env, now, hist>>

\* handleTeamSettingsApi, POST: customName ? put : delete
SettingsPutCustom(p) ==
    /\ At(p, "stPutCustom")
    /\ kvCustom' = [kvCustom EXCEPT ![proc[p].team] = proc[p].customName]
    /\ LET r == [proc[p] EXCEPT !.log = Logged(@, IF proc[p].customName # Null
                                                    THEN "put:custom" ELSE "del:custom")]
       IN  Goto(p, IF r.removeOpp = "undefined"
                     THEN CallFetch(r, TeamEndpoint(r.team), "stTeam")
                     ELSE [r EXCEPT !.pc = "stPutRemove"])
    /\ UNCHANGED <<kvToken, kvIcs, kvLastUpdate, kvAccess, kvRefresh, kvExpiresAt,
                   kvRemoveOpp, up, env, now, hist>>

\* if (removeOpponentNames !== undefined) removeOpponentNames ? put 'true' : delete
SettingsPutRemove(p) ==
    /\ At(p, "stPutRemove")
    /\ kvRemoveOpp' = [kvRemoveOpp EXCEPT ![proc[p].team] =
                          IF proc[p].removeOpp = "true" THEN "true" ELSE Null]
    /\ Goto(p, CallFetch([proc[p] EXCEPT !.log = Logged(@, IF proc[p].removeOpp = "true"
                                                    THEN "put:removeopp" ELSE "del:removeopp")],
                         TeamEndpoint(proc[p].team), "stTeam"))
    /\ UNCHANGED <<kvToken, kvIcs, kvLastUpdate, kvAccess, kvRefresh, kvExpiresAt,
                   kvCustom, up, env, now, hist>>

\* the four cache keys of a team's two tokens, in the order they are deleted
CacheKeys(teamId, teamName) ==
    LET a == generateCalendarToken(teamId, "all", envSecret, teamName)
        g == generateCalendarToken(teamId, "games", envSecret, teamName)
    IN  << <<"ics", a>>, <<"lastupdate", a>>, <<"ics", g>>, <<"lastupdate", g>> >>

Success(rec) == Respond(rec, 200, NoDoc, NoEtag, NoNum)

\* the team lookup returned: if (teamName) the four deletes; { success: true }
SettingsTeam(p) ==
    /\ At(p, "stTeam")
    /\ Goto(p, IF proc[p].fdResult = "throw"
                 THEN [proc[p] EXCEPT !.pc = "threw"]
                 ELSE IF TeamNameOf(proc[p]) # Null
                   THEN [proc[p] EXCEPT !.pc = "stDelete",
                                        !.dels = CacheKeys(proc[p].team, TeamNameOf(proc[p]))]
                   ELSE Success(proc[p]))
    /\ UNCHANGED <<kv, up, env, now, hist>>

\* await delete(`calendar_${token}`) / delete(`calendar_${token}_lastupdate`)
SettingsDelete(p) ==
    /\ At(p, "stDelete")
    /\ LET k == Head(proc[p].dels)
           r == [proc[p] EXCEPT !.dels = Tail(@), !.log = Logged(@, "del:" \o k[1])]
       IN  /\ IF k[1] = "ics"
                THEN /\ kvIcs' = Delete(kvIcs, k[2])
                     /\ UNCHANGED kvLastUpdate
                ELSE /\ kvLastUpdate' = Delete(kvLastUpdate, k[2])
                     /\ UNCHANGED kvIcs
           /\ Goto(p, IF r.dels = <<>> THEN Success(r) ELSE r)
    /\ UNCHANGED <<kvToken, kvAccess, kvRefresh, kvExpiresAt, kvCustom, kvRemoveOpp,
                   up, env, now, hist>>

handleApiRequest(p) ==
    \/ isAuthenticated(p)
    \/ IsAuthRefreshed(p)
    \/ ListMe(p)
    \/ ListTeams(p)
    \/ \E t \in Teams, f \in Filters : ListIssue(p, t, f)
    \/ SettingsPutCustom(p)
    \/ SettingsPutRemove(p)
    \/ SettingsTeam(p)
    \/ SettingsDelete(p)

\* handleOAuthCallback, the code exchange succeeds: the new token set is stored
\* (the refresh token only if the answer holds one)
OAuthCallback(withRefresh) ==
    /\ upGen < MaxGen
    /\ upGen' = upGen + 1
    /\ upLive' = upLive \cup {upGen + 1}
    /\ upRefresh' = IF withRefresh THEN upGen + 1 ELSE upRefresh
    /\ kvAccess' = upGen + 1
    /\ kvRefresh' = IF withRefresh THEN upGen + 1 ELSE kvRefresh
    /\ kvExpiresAt' = now + TokenLife
    /\ expiresOf' = upGen + 1
    /\ UNCHANGED <<kvToken, kvIcs, kvLastUpdate, kvCustom, kvRemoveOpp, upNames, upEmail,
                   upEvents, env, now, proc, issued, lastRender, calc>>

\* ------------------------------------------------------------ environment
Tick ==
    /\ now < LastNow
    /\ now' = now + HalfSecond
    /\ UNCHANGED <<kv, up, env, proc, hist>>

\* Time passes, then somebody changes an event of the team upstream: the
\* change is stamped with the new clock reading.
Changed(teamId, id, e) ==
    /\ now < LastNow
    /\ now' = now + HalfSecond
    /\ upEvents' = [upEvents EXCEPT ![teamId][id] = e]
    /\ UNCHANGED <<kv, upNames, upEmail, upGen, upLive, upRefresh, env, proc, hist>>

\* upstream: an event is added, edited, cancelled or deleted
UpstreamAdd(teamId, id, gameType, opponent) ==
    /\ upEvents[teamId][id] = NoEvent
    /\ Changed(teamId, id, Event(id, now + HalfSecond, FALSE, gameType, opponent))

UpstreamEdit(teamId, id) ==
    /\ upEvents[teamId][id] # NoEvent
    /\ Changed(teamId, id, [upEvents[teamId][id] EXCEPT !.updated_at = now + HalfSecond])

\* upstream: the collection holds an item that has no data list
UpstreamBare(teamId, id) ==
    /\ upEvents[teamId][id] = NoEvent
    /\ upEvents' = [upEvents EXCEPT ![teamId][id] = BareItem(id)]
    /\ UNCHANGED <<kv, upNames, upEmail, upGen, upLive, upRefresh, env, now, proc, hist>>

UpstreamCancel(teamId, id) ==
    /\ upEvents[teamId][id] # NoEvent
    /\ ~upEvents[teamId][id].is_canceled
    /\ Changed(teamId, id, [upEvents[teamId][id] EXCEPT !.updated_at = now + HalfSecond,
                                                        !.is_canceled = TRUE])

UpstreamDelete(teamId, id) ==
    /\ upEvents[teamId][id] # NoEvent
    /\ Changed(teamId, id, NoEvent)

\* upstream: an access token stops being accepted
UpstreamExpire(g) ==
    /\ g \in upLive
    /\ upLive' = upLive \ {g}
    /\ UNCHANGED <<kv, upNames, upEmail, upEvents, upGen, upRefresh, env, now,
                   proc, hist>>

\* the store drops a key whose expirationTtl has passed
KvExpireIcs(id) ==
    /\ id \in DOMAIN kvIcs
    /\ kvIcs' = Delete(kvIcs, id)
    /\ UNCHANGED <<kvToken, kvLastUpdate, kvAccess, kvRefresh, kvExpiresAt, kvCustom,
                   kvRemoveOpp, up, env, now, proc, hist>>

KvExpireLastUpdate(id) ==
    /\ id \in DOMAIN kvLastUpdate
    /\ kvLastUpdate' = Delete(kvLastUpdate, id)
    /\ UNCHANGED <<kvToken, kvIcs, kvAccess, kvRefresh, kvExpiresAt, kvCustom,
                   kvRemoveOpp, up, env, now, proc, hist>>

KvExpireAccess ==
    /\ kvAccess # 0
    /\ kvAccess' = 0
    /\ UNCHANGED <<kvToken, kvIcs, kvLastUpdate, kvRefresh, kvExpiresAt, kvCustom,
                   kvRemoveOpp, up, env, now, proc, hist>>

\* a value the worker did not write is put under a token key of the namespace
KvForeignToken(id) ==
    /\ Get(kvToken, id, NoValue) # Garbage
    /\ kvToken' = Put(kvToken, id, Garbage)
    /\ UNCHANGED <<kvIcs, kvLastUpdate, kvAccess, kvRefresh, kvExpiresAt, kvCustom,
                   kvRemoveOpp, up, env, now, proc, hist>>

\* ------------------------------------------------------- specifications
Practice == <<Null, Null>>
HomeGame == <<"Home", "Jets">>

\* A new deployment: an empty namespace, nobody authorised; upstream, team t1
\* ("A") has one practice and team t2 ("B") has no events.
Fresh ==
    /\ kvToken = EmptyMap
    /\ kvIcs = EmptyMap
    /\ kvLastUpdate = EmptyMap
    /\ kvAccess = 0
    /\ kvRefresh = 0
    /\ kvExpiresAt = NoNum
    /\ kvCustom = [t \in Teams |-> Null]
    /\ kvRemoveOpp = [t \in Teams |-> Null]
    /\ upEvents = [t \in Teams |-> [i \in EventIds |->
                      IF t = "t1" /\ i = 1
                        THEN Event(1, FirstNow, FALSE, Practice[1], Practice[2])
                        ELSE NoEvent]]
    /\ upGen = 0
    /\ upLive = {}
    /\ upRefresh = 0
    /\ now = FirstNow
    /\ proc = [p \in Procs |-> Idle]
    /\ issued = {}
    /\ lastRender = EmptyMap
    /\ expiresOf = 0

\* the deployment's owner is the account that grants the tokens
OwnerAllowed == envAllowedEmail = AllowedEmail /\ upEmail = AllowedEmail

Configured ==
    /\ Fresh
    /\ OwnerAllowed
    /\ envSecret = "sek"
    /\ upNames = [t \in Teams |-> IF t = "t1" THEN "A" ELSE "B"]

Init ==
    /\ Configured
    /\ calc = NoCalc

Quiet == \A q \in Procs : proc[q].pc = "idle"

\* The requests of a subscriber of team t1's feeds: either of its two
\* calendar ids, with no flag and any validators, or with cache=off or
\* refresh=true and the validators of one earlier response or none; and a
\* calendar id that was never issued.
Asked == {generateCalendarToken("t1", f, envSecret, upNames["t1"]) : f \in Filters}
Validators == {FirstNow, FirstNow + HalfSecond}
Flags == BOOLEAN \X BOOLEAN     \* <<cache=off, refresh=true>>

Subscriber(p) ==
    /\ Quiet
    /\ \/ \E id \in Asked :
            \E inm \in {NoEtag} \cup {Etag(id, w) : w \in Validators},
               ims \in {NoNum} \cup Validators :
              FeedStart(p, id, FALSE, FALSE, inm, ims)
       \/ \E id \in Asked, fl \in Flags \ {<<FALSE, FALSE>>} :
              \/ FeedStart(p, id, fl[1], fl[2], NoEtag, NoNum)
              \/ FeedStart(p, id, fl[1], fl[2], Etag(id, FirstNow), FirstNow)
       \/ \E fl \in Flags : FeedStart(p, UnknownToken, fl[1], fl[2], NoEtag, NoNum)

\* The owner authorises when nobody is authorised, and lists the calendars.
Owner(p) ==
    \/ Quiet /\ kvAccess = 0 /\ OAuthCallback(TRUE)
    \/ Quiet /\ ApiStart(p, "teams", Null, Null, Null)

\* Requests are handled one at a time; upstream answers every call; the
\* events of team t1 change and the cache keys expire at any await.
Next ==
    \/ Subscriber("f1")
    \/ Owner("api")
    \/ FeedParse("f1")
    \/ FeedReadIcs("f1")
    \/ FeedReadLastUpdate("f1")
    \/ FeedDeleteIcs("f1")
    \/ FeedDeleteLastUpdate("f1")
    \/ FeedAuth("f1")
    \/ FeedEventsOk("f1")
    \/ FeedRender("f1")
    \/ FeedPutIcs("f1")
    \/ FeedPutLastUpdate("f1")
    \/ isAuthenticated("api")
    \/ ListMe("api")
    \/ ListTeams("api")
    \/ \E t \in Teams, f \in Filters : ListIssue("api", t, f)
    \/ \E p \in {"f1", "api"} : FetchGet(p) \/ FetchOk(p) \/ Finish(p)
    \/ UpstreamAdd("t1", 2, HomeGame[1], HomeGame[2])
    \/ \E i \in EventIds : UpstreamEdit("t1", i)
    \/ \E i \in EventIds : UpstreamCancel("t1", i)
    \/ \E i \in EventIds : UpstreamDelete("t1", i)
    \/ \E id \in Asked : KvExpireIcs(id)
    \/ \E id \in Asked : KvExpireLastUpdate(id)

Spec == Init /\ [][Next]_vars


\* The deployment under faults: the owner authorises with or without a
\* refresh token, the stored access token expires, upstream stops accepting
\* a token or fails a call, and a value the worker did not write lands under
\* a token key.  The subscriber asks for team t1's all-events feed, with no
\* validator or the ETag of its first rendering.
AllEvents == generateCalendarToken("t1", "all", envSecret, upNames["t1"])

SubscriberOfAll(p) ==
    /\ Quiet
    /\ \E inm \in {NoEtag, Etag(AllEvents, FirstNow)} :
         FeedStart(p, AllEvents, FALSE, FALSE, inm, NoNum)

OwnerAnyGrant(p) ==
    \/ Quiet /\ kvAccess = 0 /\ \E withRefresh \in BOOLEAN : OAuthCallback(withRefresh)
    \/ Quiet /\ ApiStart(p, "teams", Null, Null, Null)

NextFaults ==
    \/ SubscriberOfAll("f1")
    \/ OwnerAnyGrant("api")
    \/ FeedParse("f1")
    \/ FeedReadIcs("f1")
    \/ FeedReadLastUpdate("f1")
    \/ FeedAuth("f1")
    \/ FeedAuthRefreshed("f1")
    \/ FeedEventsOk("f1")
    \/ FeedEventsFail("f1")
    \/ FeedRender("f1")
    \/ FeedPutIcs("f1")
    \/ FeedPutLastUpdate("f1")
    \/ isAuthenticated("api")
    \/ ListMe("api")
    \/ ListTeams("api")
    \/ \E t \in Teams, f \in Filters : ListIssue("api", t, f)
    \/ \E p \in {"f1", "api"} : refreshAccessToken(p)
    \/ \E p \in {"f1", "api"} : fetchTeamSnapData(p)
    \/ \E p \in {"f1", "api"} : Finish(p)
    \/ KvExpireAccess
    \/ \E g \in 1..MaxGen : UpstreamExpire(g)
    \/ KvForeignToken(AllEvents)

SpecFaults == Init /\ [][NextFaults]_vars

\* Listings: the deployment's secret may be unset and the two teams may have
\* the same name; the owner lists the calendars again and again while time
\* passes, and a subscriber fetches any feed whose token is stored.
InitListing ==
    /\ Fresh
    /\ OwnerAllowed
    /\ envSecret \in Secrets \cup {Null}
    /\ upNames \in {[t \in Teams |-> IF t = "t1" THEN "A" ELSE n] : n \in Names}
    /\ calc = NoCalc

SubscriberOfAny(p) ==
    /\ Quiet
    /\ \E id \in DOMAIN kvToken : FeedStart(p, id, FALSE, FALSE, NoEtag, NoNum)

NextListing ==
    \/ Owner("api")
    \/ SubscriberOfAny("f1")
    \/ isAuthenticated("api")
    \/ ListMe("api")
    \/ ListTeams("api")
    \/ \E t \in Teams, f \in Filters : ListIssue("api", t, f)
    \/ FeedParse("f1")
    \/ FeedReadIcs("f1")
    \/ FeedReadLastUpdate("f1")
    \/ FeedAuth("f1")
    \/ FeedEventsOk("f1")
    \/ FeedRender("f1")
    \/ FeedPutIcs("f1")
    \/ FeedPutLastUpdate("f1")
    \/ \E p \in {"f1", "api"} : FetchGet(p) \/ FetchOk(p) \/ Finish(p)
    \/ Tick

SpecListing == InitListing /\ [][NextListing]_vars

\* Settings: the owner posts preferences for team t1 while its all-events
\* feed is being fetched now and then; the team lookup may be answered with
\* an error or not at all.
OwnerOfSettings(p) ==
    \/ Owner(p)
    \/ /\ Quiet
       /\ \E customName \in CustomNames \cup {Null},
             removeOpp \in {"true", "false", "undefined"} :
            ApiStart(p, "settings", "t1", customName, removeOpp)

SubscriberPlain(p) ==
    /\ proc["api"].pc = "idle"
    /\ AllEvents \in DOMAIN kvToken
    /\ FeedStart(p, AllEvents, FALSE, FALSE, NoEtag, NoNum)

NextSettings ==
    \/ OwnerOfSettings("api")
    \/ Quiet /\ SubscriberPlain("f1")
    \/ isAuthenticated("api")
    \/ ListMe("api")
    \/ ListTeams("api")
    \/ \E t \in Teams, f \in Filters : ListIssue("api", t, f)
    \/ SettingsPutCustom("api")
    \/ SettingsPutRemove("api")
    \/ SettingsTeam("api")
    \/ SettingsDelete("api")
    \/ FeedParse("f1")
    \/ FeedReadIcs("f1")
    \/ FeedReadLastUpdate("f1")
    \/ FeedAuth("f1")
    \/ FeedEventsOk("f1")
    \/ FeedRender("f1")
    \/ FeedPutIcs("f1")
    \/ FeedPutLastUpdate("f1")
    \/ \E p \in {"f1", "api"} : FetchGet(p) \/ FetchOk(p) \/ Finish(p)
    \/ FetchFail("api")
    \/ FetchThrow("api")

SpecSettings == Init /\ [][NextSettings]_vars

\* Concurrency: two requests for team t1's all-events feed are in flight at
\* once, every await a point where the other may run, while the team's event
\* is edited upstream.
NextConcurrent ==
    \/ Owner("api")
    \/ \E p \in Feeds : SubscriberPlain(p)
    \/ isAuthenticated("api")
    \/ ListMe("api")
    \/ ListTeams("api")
    \/ \E t \in Teams, f \in Filters : ListIssue("api", t, f)
    \/ \E p \in Feeds : \/ FeedParse(p)
                        \/ FeedReadIcs(p)
                        \/ FeedReadLastUpdate(p)
                        \/ FeedAuth(p)
                        \/ FeedEventsOk(p)
                        \/ FeedRender(p)
                        \/ FeedPutIcs(p)
                        \/ FeedPutLastUpdate(p)
    \/ \E p \in Procs : FetchGet(p) \/ FetchOk(p) \/ Finish(p)
    \/ UpstreamEdit("t1", 1)

SpecConcurrent == Init /\ [][NextConcurrent]_vars

\* The functions of the pipeline on their own.  A text value is written for
\* any string over the characters that matter; the filter is applied to any
\* short event list, every event cancelled or not, with or without a game
\* type and an opponent.
ApplyCalc(result) ==
    /\ ~calc.done
    /\ calc' = [calc EXCEPT !.done = TRUE, !.out = result]
    /\ UNCHANGED <<kv, up, env, now, proc, issued, lastRender, expiresOf>>

InitText ==
    /\ Configured
    /\ \E field \in TextFields, s \in Texts :
         calc = [fn |-> "text", arg |-> <<field, s>>, done |-> FALSE, out |-> <<>>]

WriteText ==
    /\ calc.fn = "text"
    /\ ApplyCalc(TextValue(calc.arg[1], calc.arg[2]))

SpecText == InitText /\ [][WriteText]_vars

\* Malformed collections: team t1's all-events feed is fetched again and
\* again; at some point the upstream collection holds an item without a data
\* list, and the team's event is edited now and then.
NextMalformed ==
    \/ Owner("api")
    \/ SubscriberPlain("f1")
    \/ isAuthenticated("api")
    \/ ListMe("api")
    \/ ListTeams("api")
    \/ \E t \in Teams, f \in Filters : ListIssue("api", t, f)
    \/ FeedParse("f1")
    \/ FeedReadIcs("f1")
    \/ FeedReadLastUpdate("f1")
    \/ FeedAuth("f1")
    \/ FeedEventsOk("f1")
    \/ FeedRender("f1")
    \/ FeedPutIcs("f1")
    \/ FeedPutLastUpdate("f1")
    \/ \E p \in {"f1", "api"} : FetchGet(p) \/ FetchOk(p) \/ Finish(p)
    \/ UpstreamBare("t1", 2)
    \/ UpstreamEdit("t1", 1)

SpecMalformed == Init /\ [][NextMalformed]_vars

\* Access: the deployment names an allowed email or none, and the account
\* that grants the tokens is the allowed one or another; the calendars are
\* listed and the settings of team t1 are read and posted.
InitAccess ==
    /\ Fresh
    /\ envAllowedEmail \in {AllowedEmail, Null}
    /\ upEmail \in Emails
    /\ envSecret = "sek"
    /\ upNames = [t \in Teams |-> IF t = "t1" THEN "A" ELSE "B"]
    /\ calc = NoCalc

OwnerReadsSettings(p) == Quiet /\ ApiStart(p, "settingsGet", "t1", Null, Null)

NextAccess ==
    \/ OwnerOfSettings("api")
    \/ OwnerReadsSettings("api")
    \/ isAuthenticated("api")
    \/ ListMe("api")
    \/ ListTeams("api")
    \/ \E t \in Teams, f \in Filters : ListIssue("api", t, f)
    \/ SettingsRead("api")
    \/ SettingsPutCustom("api")
    \/ SettingsPutRemove("api")
    \/ SettingsTeam("api")
    \/ SettingsDelete("api")
    \/ FetchGet("api")
    \/ FetchOk("api")
    \/ Finish("api")

SpecAccess == InitAccess /\ [][NextAccess]_vars

\* Settings during a render: the owner posts preferences for team t1 while a
\* request for its all-events feed holds a rendered document that it has not
\* yet stored; every await of either handler is a point where the other runs.
OwnerDuringRender(p) ==
    \/ Owner(p)
    \/ /\ proc["f1"].pc \in {"idle", "render", "putIcs", "putLastUpdate"}
       /\ \E customName \in CustomNames \cup {Null},
             removeOpp \in {"true", "false", "undefined"} :
            ApiStart(p, "settings", "t1", customName, removeOpp)

NextOverlap ==
    \/ OwnerDuringRender("api")
    \/ SubscriberPlain("f1")
    \/ isAuthenticated("api")
    \/ ListMe("api")
    \/ ListTeams("api")
    \/ \E t \in Teams, f \in Filters : ListIssue("api", t, f)
    \/ SettingsPutCustom("api")
    \/ SettingsPutRemove("api")
    \/ SettingsTeam("api")
    \/ SettingsDelete("api")
    \/ FeedParse("f1")
    \/ FeedReadIcs("f1")
    \/ FeedReadLastUpdate("f1")
    \/ FeedAuth("f1")
    \/ FeedEventsOk("f1")
    \/ FeedRender("f1")
    \/ FeedPutIcs("f1")
    \/ FeedPutLastUpdate("f1")
    \/ \E p \in {"f1", "api"} : FetchGet(p) \/ FetchOk(p) \/ Finish(p)

SpecOverlap == Init /\ [][NextOverlap]_vars

\* Revalidation by date: a client of team t1's all-events feed sends back as
\* If-Modified-Since the Last-Modified header of the last 200 response it
\* got; the header is the watermark as an HTTP date, which has no
\* milliseconds.  The team's event is edited now and then.
toUTCString(ms) == (ms \div (2 * HalfSecond)) * (2 * HalfSecond)

SubscriberEchoingDate(p) ==
    /\ Quiet
    /\ AllEvents \in DOMAIN kvToken
    /\ IF AllEvents \in DOMAIN lastRender
         THEN FeedStart(p, AllEvents, FALSE, FALSE, NoEtag,
                        toUTCString(lastRender[AllEvents].etag.wm))
         ELSE FeedStart(p, AllEvents, FALSE, FALSE, NoEtag, NoNum)

NextRevalidate ==
    \/ Owner("api")
    \/ SubscriberEchoingDate("f1")
    \/ isAuthenticated("api")
    \/ ListMe("api")
    \/ ListTeams("api")
    \/ \E t \in Teams, f \in Filters : ListIssue("api", t, f)
    \/ FeedParse("f1")
    \/ FeedReadIcs("f1")
    \/ FeedReadLastUpdate("f1")
    \/ FeedAuth("f1")
    \/ FeedEventsOk("f1")
    \/ FeedRender("f1")
    \/ FeedPutIcs("f1")
    \/ FeedPutLastUpdate("f1")
    \/ \E p \in {"f1", "api"} : FetchGet(p) \/ FetchOk(p) \/ Finish(p)
    \/ UpstreamEdit("t1", 1)

SpecRevalidate == Init /\ [][NextRevalidate]_vars

\* Titles on their own: any event of the title code, any stored preferences
\* and the upstream team name known or not.
TitledEvents ==
    {TitledEvent(g, t, o, f, m, l, n) :
       g \in BOOLEAN, t \in {Null, "Game"}, o \in {Null, "Lions"},
       f \in {<<>>, <<"Practice">>}, m \in Titles,
       l \in {Null, "Drill"}, n \in {Null, "Meet"}}

InitTitle ==
    /\ Configured
    /\ \E event \in TitledEvents, customName \in {Null, "Cubs"},
          removeOpponentNames \in {Null, "true"}, actualTeamName \in {Null, TeamWord} :
         calc = [fn |-> "title",
                 arg |-> <<event, customName, removeOpponentNames, actualTeamName>>,
                 done |-> FALSE, out |-> <<>>]

WriteTitle ==
    /\ calc.fn = "title"
    /\ ApplyCalc(customTitle(calc.arg[1], calc.arg[2], calc.arg[3], calc.arg[4]))

SpecTitle == InitTitle /\ [][WriteTitle]_vars

\* Descriptions on their own: any event of the description code.
DescribedEvents ==
    {DescribedEvent(g, o, t, l, u, n, d, a, m, z, s) :
       g \in BOOLEAN, o \in {Null, "Lions"}, t \in {"Home", "Away", Null},
       l \in {Null, "Final"}, u \in {Null, "Red"}, n \in {Null, "Park"},
       d \in {Null, "TBD", "Field 2"}, a \in {Null, "17:30Z"}, m \in {NoNum, 0, 15},
       z \in {Null, "America/Toronto"}, s \in {Null, "Bring water"}}

InitDescription ==
    /\ Configured
    /\ \E event \in DescribedEvents :
         calc = [fn |-> "description", arg |-> <<event>>, done |-> FALSE, out |-> <<>>]

WriteDescription ==
    /\ calc.fn = "description"
    /\ ApplyCalc(generateEventDescription(calc.arg[1]))

SpecDescription == InitDescription /\ [][WriteDescription]_vars

\* Event blocks on their own: short collections of items, each with or
\* without an id, a start, an end, an opponent and a location, the location
\* lookup giving an address, giving null or throwing; and the item without a
\* data list.
WireEvents ==
    {WireEvent(i, t[1], t[2], g, IF g THEN "Lions" ELSE Null, Null, l[1], l[2]) :
       i \in {Null, "7"}, t \in {<<NoNum, NoNum>>, <<10, NoNum>>, <<10, 20>>},
       g \in BOOLEAN, l \in {<<Null, Null>>, <<"Park", Null>>, <<"Park", "9">>}}
Lookups == {"address", "null", "throw"}
WireItems ==
    {Item(TRUE, e, k) : e \in {w \in WireEvents : w.location_id = Null}, k \in {"null"}}
    \cup {Item(TRUE, e, k) : e \in {w \in WireEvents : w.location_id # Null}, k \in Lookups}
    \cup {Item(FALSE, WireEvent(Null, NoNum, NoNum, FALSE, Null, Null, Null, Null), "null")}
ItemLists == UNION {[1..n -> WireItems] : n \in 0..MaxItems}

InitBlocks ==
    /\ Configured
    /\ \E items \in ItemLists :
         calc = [fn |-> "blocks", arg |-> <<items>>, done |-> FALSE, out |-> <<>>]

WriteBlocks ==
    /\ calc.fn = "blocks"
    /\ ApplyCalc(renderEvents(calc.arg[1], "t1", Null, Null, TeamWord))

SpecBlocks == InitBlocks /\ [][WriteBlocks]_vars

EventKinds ==
    {<<c, g, o>> : c \in BOOLEAN, g \in {"Game", "Home", Null}, o \in {Null, "", "Jets"}}
EventLists ==
    UNION {{[i \in 1..n |-> Event(i, FirstNow, k[i][1], k[i][2], k[i][3])] :
              k \in [1..n -> EventKinds]} : n \in 0..MaxEvents}

InitFilter ==
    /\ Configured
    /\ \E events \in EventLists, filterType \in Filters :
         calc = [fn |-> "filter", arg |-> <<events, filterType>>, done |-> FALSE,
                 out |-> <<>>]

FilterEvents ==
    /\ calc.fn = "filter"
    /\ ApplyCalc(applyFilter(calc.arg[1], calc.arg[2]))

SpecFilter == InitFilter /\ [][FilterEvents]_vars

\* Display formats: the all-events feed of team t1 is asked for as .ics, as
\* .ics with format=text and as .txt, again and again, while its event is
\* edited upstream now and then.
SubscriberOfText(p) ==
    /\ Quiet
    /\ AllEvents \in DOMAIN kvToken
    /\ \E forceText \in BOOLEAN, format \in {Null, "text"} :
         FeedStartText(p, AllEvents, forceText, format)

NextDisplay ==
    \/ Owner("api")
    \/ SubscriberOfText("f1")
    \/ isAuthenticated("api")
    \/ ListMe("api")
    \/ ListTeams("api")
    \/ \E t \in Teams, f \in Filters : ListIssue("api", t, f)
    \/ FeedParse("f1")
    \/ FeedReadIcs("f1")
    \/ FeedReadLastUpdate("f1")
    \/ FeedAuth("f1")
    \/ FeedEventsOk("f1")
    \/ FeedRender("f1")
    \/ FeedPutIcs("f1")
    \/ FeedPutLastUpdate("f1")
    \/ \E p \in {"f1", "api"} : FetchGet(p) \/ FetchOk(p) \/ Finish(p)
    \/ UpstreamEdit("t1", 1)

SpecDisplay == Init /\ [][NextDisplay]_vars

\* Sessions: the owner authorised one token lifetime ago, with or without a
\* refresh token in the grant, so that the recorded expiry is the first
\* reading of the clock; the owner then lists the calendars while time
\* passes, the stored access token expires and upstream revokes tokens.
InitSession ==
    /\ OwnerAllowed
    /\ kvToken = EmptyMap
    /\ kvIcs = EmptyMap
    /\ kvLastUpdate = EmptyMap
    /\ kvAccess = 1
    /\ kvRefresh \in {0, 1}
    /\ kvExpiresAt = FirstNow
    /\ kvCustom = [t \in Teams |-> Null]
    /\ kvRemoveOpp = [t \in Teams |-> Null]
    /\ upEvents = [t \in Teams |-> [i \in EventIds |-> NoEvent]]
    /\ upNames = [t \in Teams |-> IF t = "t1" THEN "A" ELSE "B"]
    /\ upGen = 1
    /\ upLive = {1}
    /\ upRefresh = kvRefresh
    /\ envSecret = "sek"
    /\ now = FirstNow
    /\ proc = [p \in Procs |-> Idle]
    /\ issued = {}
    /\ lastRender = EmptyMap
    /\ calc = NoCalc
    /\ expiresOf = 1

\* Refresh races: the owner authorised and listed the calendars one token
\* lifetime ago and the stored access token has expired from the store; two
\* requests for team t1's all-events feed are then in flight at once, each
\* refreshing the tokens, every await a point where the other may run.
InitRace ==
    /\ OwnerAllowed
    /\ envSecret = "sek"
    /\ upNames = [t \in Teams |-> IF t = "t1" THEN "A" ELSE "B"]
    /\ kvToken = Put(EmptyMap, AllEvents, Stringify("t1", "all"))
    /\ kvIcs = EmptyMap
    /\ kvLastUpdate = EmptyMap
    /\ kvAccess = 0
    /\ kvRefresh = 1
    /\ kvExpiresAt = FirstNow
    /\ kvCustom = [t \in Teams |-> Null]
    /\ kvRemoveOpp = [t \in Teams |-> Null]
    /\ upEvents = [t \in Teams |-> [i \in EventIds |->
                      IF t = "t1" /\ i = 1
                        THEN Event(1, FirstNow, FALSE, Practice[1], Practice[2])
                        ELSE NoEvent]]
    /\ upGen = 1
    /\ upLive = {1}
    /\ upRefresh = 1
    /\ now = FirstNow
    /\ proc = [p \in Procs |-> Idle]
    /\ issued = {}
    /\ lastRender = EmptyMap
    /\ calc = NoCalc
    /\ expiresOf = 1

NextRace ==
    \/ \E p \in Feeds : \/ SubscriberPlain(p)
                        \/ FeedParse(p)
                        \/ FeedReadIcs(p)
                        \/ FeedReadLastUpdate(p)
                        \/ FeedAuth(p)
                        \/ FeedAuthRefreshed(p)
                        \/ refreshAccessToken(p)
                        \/ FetchGet(p)
                        \/ FetchOk(p)
                        \/ FeedEventsOk(p)
                        \/ FeedRender(p)
                        \/ FeedPutIcs(p)
                        \/ FeedPutLastUpdate(p)
                        \/ Finish(p)
    \/ Tick

SpecRace == InitRace /\ [][NextRace]_vars

OwnerListing(p) == Quiet /\ ApiStart(p, "teams", Null, Null, Null)

NextSession ==
    \/ OwnerListing("api")
    \/ isAuthenticated("api")
    \/ IsAuthRefreshed("api")
    \/ ListMe("api")
    \/ ListTeams("api")
    \/ \E t \in Teams, f \in Filters : ListIssue("api", t, f)
    \/ refreshAccessToken("api")
    \/ fetchTeamSnapData("api")
    \/ Finish("api")
    \/ Tick
    \/ KvExpireAccess
    \/ \E g \in 1..MaxGen : UpstreamExpire(g)

SpecSession == InitSession /\ [][NextSession]_vars


\* ------------------------------------------------ properties of the feed
Bypass(rec) == rec.cacheOff \/ rec.forceRefresh
PastCacheReads(rec) ==
    rec.path = "feed" /\ rec.pc \notin {"idle", "parse", "readIcs", "readLastUpdate"}
CacheWrites(l) == {i \in DOMAIN l : l[i] \in {"put:ics", "put:lastupdate",
                                              "del:ics", "del:lastupdate"}}

\* C1: a feed request without cache=off or refresh=true that read both cache
\* keys and whose If-None-Match equals the cached ETag, or whose
\* If-Modified-Since is not before the cached watermark, has been answered 304
\* with no body, no upstream call and no store write.
C1_NotModifiedWithoutWork ==
    \A p \in Feeds :
      LET r == proc[p]
      IN  (/\ PastCacheReads(r)
           /\ ~Bypass(r)
           /\ r.cachedIcs # NoDoc
           /\ r.cachedLastUpdate # NoNum
           /\ \/ r.inm = Etag(r.id, r.cachedLastUpdate)
              \/ r.ims # NoNum /\ r.ims >= r.cachedLastUpdate)
          => /\ r.pc = "done"
             /\ r.status = 304
             /\ r.body = NoDoc
             /\ r.log = <<>>

C1_Witness ==
    \E p \in Feeds :
      LET r == proc[p]
      IN  /\ r.pc = "done" /\ r.status = 304 /\ ~Bypass(r)
          /\ r.cachedIcs # NoDoc
          /\ r.ims = NoNum
          /\ r.inm = Etag(r.id, r.cachedLastUpdate)

\* C2: once the events are fetched, a request without bypass flags whose
\* cached pair is present and whose event watermark is not above the cached
\* watermark has been answered 200 with the cached document: nothing was
\* rendered and the cache keys were not written.
EventsFetched(rec) ==
    /\ rec.path = "feed"
    /\ \/ rec.pc \in {"render", "putIcs", "putLastUpdate"}
       \/ rec.pc = "done" /\ rec.status = 200

C2_CachedDocumentServed ==
    \A p \in Feeds :
      LET r == proc[p]
      IN  (/\ EventsFetched(r)
           /\ ~Bypass(r)
           /\ r.cachedIcs # NoDoc
           /\ r.cachedLastUpdate # NoNum
           /\ r.latest <= r.cachedLastUpdate)
          => /\ r.pc = "done"
             /\ r.status = 200
             /\ r.body = r.cachedIcs
             /\ r.icsContent = NoDoc
             /\ CacheWrites(r.log) = {}

C2_Witness ==
    \E p \in Feeds :
      LET r == proc[p]
      IN  /\ r.pc = "done" /\ r.status = 200 /\ ~Bypass(r)
          /\ r.cachedIcs # NoDoc
          /\ r.body = r.cachedIcs
          /\ r.latest = r.cachedLastUpdate
          /\ Count(r.log, "up:events") = 1

\* C3 as stated: a request without bypass flags that sends the ETag of the
\* last newly rendered response for its token, while the filtered event set
\* upstream is the one that response was rendered from, is answered 304.
SentPriorEtag(rec) ==
    /\ rec.path = "feed"
    /\ ~Bypass(rec)
    /\ rec.prior # NoRender
    /\ rec.inm = rec.prior.etag

C3_AsStated ==
    \A p \in Feeds :
      LET r == proc[p]
      IN  (/\ r.pc = "done"
           /\ SentPriorEtag(r)
           /\ Filtered(Items(r.tokenData.teamId), r.tokenData.filterType)
                = r.prior.events)
          => r.status = 304

\* C3: if the earlier response was rendered with a watermark above 0 and the
\* request reads the cached pair that response wrote, a request that sends
\* its ETag is answered 304.
C3_EtagRevalidates ==
    \A p \in Feeds :
      LET r == proc[p]
      IN  (/\ PastCacheReads(r)
           /\ SentPriorEtag(r)
           /\ r.prior.latest > 0
           /\ r.cachedIcs = r.prior.doc
           /\ r.cachedLastUpdate = r.prior.latest)
          => r.pc = "done" /\ r.status = 304

C3_Witness ==
    \E p \in Feeds :
      LET r == proc[p]
      IN  /\ r.pc = "done" /\ r.status = 304
          /\ SentPriorEtag(r)
          /\ r.prior.latest > 0
          /\ r.cachedIcs = r.prior.doc
          /\ r.ims = NoNum

\* C8: a feed request that found no mapping for its token has been answered
\* 400 and has made no upstream call and no store write, refresh=true or not.
C8_UnknownTokenRejected ==
    \A p \in Feeds :
      LET r == proc[p]
      IN  (r.path = "feed" /\ r.pc \notin {"idle", "parse"} /\ r.mapping = NoValue)
          => r.pc = "done" /\ r.status = 400 /\ r.log = <<>>

C8_Witness ==
    \E p \in Feeds :
      LET r == proc[p]
      IN  /\ r.pc = "done" /\ r.status = 400 /\ r.forceRefresh
          /\ r.mapping = NoValue
          /\ r.id \notin DOMAIN kvToken

\* C9 as stated: a feed request whose token maps to a stored value that is
\* not JSON ends like one whose token has no mapping, with status 400.
C9_AsStated ==
    \A p \in Feeds :
      LET r == proc[p]
      IN  (r.path = "feed" /\ r.pc \notin {"idle", "parse"} /\ r.mapping = Garbage)
          => r.pc = "done" /\ r.status = 400

\* C10 as stated: a feed request for a valid token that arrived while neither
\* an access token nor a refresh token was stored returns 401, with no event
\* fetch.
ValidWithoutTokens(rec) ==
    /\ rec.path = "feed"
    /\ rec.pc \notin {"idle", "parse"}
    /\ IsJson(rec.mapping)
    /\ ~rec.hadTokens

C10_AsStated ==
    \A p \in Feeds :
      LET r == proc[p]
      IN  (ValidWithoutTokens(r) /\ r.pc = "done")
          => r.status = 401 /\ Count(r.log, "up:events") = 0

\* C10: such a request never attempts the event fetch, and it returns 401
\* unless the conditional check on the cached pair has answered it 304.
C10_NoTokensNoFetch ==
    \A p \in Feeds :
      LET r == proc[p]
      IN  ValidWithoutTokens(r)
          => /\ r.pc # "events"
             /\ UpCalls(r.log) = {}
             /\ r.pc = "done" => r.status = IF NotModified(r) THEN 304 ELSE 401

C10_Witness ==
    \E p \in Feeds :
      LET r == proc[p]
      IN  /\ ValidWithoutTokens(r)
          /\ r.pc = "done" /\ r.status = 401
          /\ kvAccess = 0 /\ kvRefresh = 0

\* ------------------------------------------- properties of the cache pair
\* the watermark of the events a document was rendered from
WatermarkOf(doc) == Max({0} \cup {e[2] : e \in doc.evs})

AtRest == \A p \in Feeds : proc[p].pc \in {"idle", "done"}

\* C4, in the states where no feed request is between two awaits: whenever
\* both cache keys of a token are present, the stored watermark is the
\* maximum updated_at of the events the stored document was rendered from.
\* (The claim says so of every state, these included.)
C4_PairConsistentAtRest ==
    AtRest =>
      \A id \in DOMAIN kvIcs \cap DOMAIN kvLastUpdate :
        kvLastUpdate[id] = WatermarkOf(kvIcs[id])

\* C5 as stated: when a settings update has answered success and no feed
\* request is in flight, the preferences are stored and the four cache keys
\* of the team's two tokens are absent.
PreferencesStored(rec) ==
    /\ kvCustom[rec.team] = rec.customName
    /\ rec.removeOpp = "true" => kvRemoveOpp[rec.team] = "true"
    /\ rec.removeOpp = "false" => kvRemoveOpp[rec.team] = Null

CacheAbsent(teamId) ==
    \A f \in Filters :
      LET token == generateCalendarToken(teamId, f, envSecret, upNames[teamId])
      IN  token \notin DOMAIN kvIcs /\ token \notin DOMAIN kvLastUpdate

C5_AsStated ==
    \A p \in Apis :
      LET r == proc[p]
      IN  (/\ r.path = "settings" /\ r.pc = "done" /\ r.status = 200
           /\ \A f \in Feeds : proc[f].pc = "idle")
          => PreferencesStored(r) /\ CacheAbsent(r.team)

\* ------------------------------------------------ properties of the tokens
SameInputs(a, b) ==
    /\ a.teamId = b.teamId
    /\ a.filterType = b.filterType
    /\ a.teamName = b.teamName
    /\ a.secret = b.secret

\* C6 as stated: a feed request whose token was issued for (teamId,
\* filterType, teamName) resolves it through parseCalendarToken to exactly
\* that teamId and filterType.  (No mapping is ever deleted.)
C6_AsStated ==
    \A p \in Feeds : \A i \in issued :
      LET r == proc[p]
      IN  (/\ r.path = "feed" /\ r.pc \notin {"idle", "parse"}
           /\ r.id = i.token)
          => r.tokenData = [teamId |-> i.teamId, filterType |-> i.filterType]

PutsAccess(l) == {i \in DOMAIN l : l[i] = "put:access"}
CachePuts(l)  == {i \in DOMAIN l : l[i] \in {"put:ics", "put:lastupdate"}}

\* C11 as stated: a feed request whose access token upstream rejected with
\* 401 at the event fetch, and during which no refresh succeeded, ends with
\* status 401.
C11_AsStated ==
    \A p \in Feeds :
      LET r == proc[p]
      IN  (/\ r.path = "feed" /\ r.pc = "done"
           /\ r.evAnswer = "401"
           /\ PutsAccess(r.log) = {})
          => r.status = 401

\* C12: a feed request whose event fetch answered non-ok or threw has ended
\* with status 500 and has put nothing under the cache keys; a request whose
\* event fetch succeeded ends with 200 whether the team-name lookup
\* succeeded, answered non-ok, returned null or threw.
C12_EventFailureIs500 ==
    \A p \in Feeds :
      LET r == proc[p]
      IN  /\ (r.path = "feed" /\ r.evAnswer \in {"401", "error", "throw"})
              => /\ r.pc = "done"
                 /\ r.status = 500
                 /\ r.body = NoDoc
                 /\ CachePuts(r.log) = {}
          /\ (r.path = "feed" /\ r.evAnswer = "ok" /\ r.pc = "done")
              => r.status = 200

C12_Witness ==
    \E p \in Feeds :
      LET r == proc[p]
      IN  /\ r.path = "feed" /\ r.pc = "done" /\ r.status = 500
          /\ r.evAnswer = "throw"
          /\ r.fdResult = "ok"

C12_WitnessLookup ==
    \E p \in Feeds :
      LET r == proc[p]
      IN  /\ r.path = "feed" /\ r.pc = "done" /\ r.status = 200
          /\ r.evAnswer = "ok"
          /\ r.fdResult = "throw"

\* ------------------------------------------ properties of the document
\* a comma is escaped when an odd number of backslashes stands before it
BackslashesBefore(v, i) ==
    LET stops == {j \in 1..(i - 1) : v[j] # Backslash}
    IN  (i - 1) - (IF stops = {} THEN 0 ELSE Max(stops))

NoUnescapedComma(v) ==
    \A i \in DOMAIN v : v[i] = Comma => BackslashesBefore(v, i) % 2 = 1

NoRawNewline(v) == \A i \in DOMAIN v : v[i] # Newline

\* C13 as stated: the value written for any string in any of the four text
\* fields holds no unescaped comma and no raw newline.
C13_AsStated ==
    (calc.fn = "text" /\ calc.done)
    => NoUnescapedComma(calc.out) /\ NoRawNewline(calc.out)

\* C14: the filter keeps, in input order, exactly the events that are not
\* cancelled and, for "games", have game_type "Game" or an opponent name.
Kept(e, filterType) ==
    /\ ~e.is_canceled
    /\ filterType = "games" => (e.game_type = "Game" \/ e.opponent_name \notin {Null, ""})

C14_FilterKeepsInOrder ==
    (calc.fn = "filter" /\ calc.done)
    => LET events == calc.arg[1]
           keep   == {j \in DOMAIN events : Kept(events[j], calc.arg[2])}
       IN  /\ Len(calc.out) = Cardinality(keep)
           /\ \A j \in keep :
                calc.out[Cardinality({k \in keep : k <= j})] = events[j]

C14_Witness ==
    /\ calc.fn = "filter" /\ calc.done
    /\ calc.arg[2] = "games"
    /\ Len(calc.arg[1]) = 2
    /\ calc.arg[1][1].game_type = "Home" /\ calc.arg[1][1].opponent_name = Null
    /\ calc.arg[1][2].opponent_name = "Jets" /\ ~calc.arg[1][2].is_canceled
    /\ Len(calc.out) = 1

\* ------------------------------------------ properties of the response
Answered(rec) == rec.path = "feed" /\ rec.pc = "done" /\ rec.status \in {200, 304}
NewRender(rec) == rec.status = 200 /\ rec.icsContent # NoDoc

\* C15 as stated: every 200 and 304 feed response carries Last-Modified,
\* Cache-Control: public, max-age=3600 and the ETag "{token}-{watermark}":
\* the cached watermark for a 304 and for the cached document, the newly
\* computed watermark for a new render, 0 included.
C15_AsStated ==
    \A p \in Feeds :
      LET r == proc[p]
      IN  Answered(r)
          => /\ r.lastModified # NoNum
             /\ r.cacheControl = CacheControl
             /\ r.etag = Etag(r.id, IF NewRender(r) THEN r.latest
                                                     ELSE r.cachedLastUpdate)

\* C15: the same, but a new render whose watermark is 0 carries an ETag and
\* a Last-Modified built from a reading of the clock.
C15_ValidatorsOfTheDocument ==
    \A p \in Feeds :
      LET r == proc[p]
      IN  Answered(r)
          => /\ r.lastModified # NoNum
             /\ r.cacheControl = CacheControl
             /\ r.etag.tok = r.id
             /\ r.lastModified = r.etag.wm
             /\ IF ~NewRender(r) THEN r.etag.wm = r.cachedLastUpdate
                 ELSE IF r.latest > 0 THEN r.etag.wm = r.latest
                 ELSE r.etag.wm \in Clock /\ r.etag.wm <= now

C15_Witness ==
    \E p \in Feeds :
      LET r == proc[p]
      IN  /\ Answered(r) /\ NewRender(r)
          /\ r.latest = 0
          /\ r.etag = Etag(r.id, now)
          /\ r.cacheControl = CacheControl

\* C16 as stated: a 200 response to a request for .txt or with format=text
\* is text/plain and inline, from the cache or newly rendered; every other
\* 200 feed response is a calendar attachment.
C16_AsStated ==
    \A p \in Feeds :
      LET r == proc[p]
      IN  (r.path = "feed" /\ r.pc = "done" /\ r.status = 200)
          => IF r.forceText \/ r.format = "text"
               THEN r.contentType = "text/plain" /\ r.disposition = "inline"
               ELSE r.contentType = "text/calendar" /\ r.disposition = "attachment"

\* ------------------------------------------------ properties of the flags
Deletes(l) == {i \in DOMAIN l : l[i] \in {"del:ics", "del:lastupdate"}}
DeletedFirst(l) ==
    \A i \in UpCalls(l) :
      \E j, k \in 1..(i - 1) : j < k /\ l[j] = "del:ics" /\ l[k] = "del:lastupdate"
NoCachedAnswer(rec) ==
    /\ rec.status # 304
    /\ rec.cachedIcs = NoDoc
    /\ (rec.pc = "done" /\ rec.status = 200)
         => rec.icsContent # NoDoc /\ rec.body = rec.icsContent

\* C17 as stated: a feed request with cache=off never answers 304, never
\* serves the cached body and issues no delete on the cache keys; a feed
\* request with refresh=true additionally deletes both cache keys of the
\* token before any upstream call is made.
C17_AsStated ==
    \A p \in Feeds :
      LET r == proc[p]
      IN  /\ (r.path = "feed" /\ r.cacheOff)
             => NoCachedAnswer(r) /\ Deletes(r.log) = {}
          /\ (r.path = "feed" /\ r.forceRefresh)
             => NoCachedAnswer(r) /\ DeletedFirst(r.log)

\* C17: the same, but cache=off issues no delete only when refresh=true is
\* not given with it; a request with both flags deletes both keys. The keys
\* deleted by a refresh=true request are absent from its first upstream call
\* until it writes them again.
C17_BypassAndRefresh ==
    \A p \in Feeds :
      LET r == proc[p]
      IN  /\ (r.path = "feed" /\ r.cacheOff)
             => /\ NoCachedAnswer(r)
                /\ ~r.forceRefresh => Deletes(r.log) = {}
          /\ (r.path = "feed" /\ r.forceRefresh)
             => /\ NoCachedAnswer(r)
                /\ DeletedFirst(r.log)
                /\ (r.pc = "done" /\ r.status # 400)
                     => Count(r.log, "del:ics") = 1 /\ Count(r.log, "del:lastupdate") = 1
                /\ (UpCalls(r.log) # {} /\ CachePuts(r.log) = {})
                     => r.id \notin DOMAIN kvIcs /\ r.id \notin DOMAIN kvLastUpdate

\* a refresh=true request that sent the validators of the cached document
\* deleted the pair, called upstream and answered 200
C17_Witness ==
    \E p \in Feeds :
      LET r == proc[p]
      IN  /\ r.path = "feed" /\ r.forceRefresh /\ r.pc = "done" /\ r.status = 200
          /\ r.prior # NoRender /\ r.inm = r.prior.etag
          /\ UpCalls(r.log) # {}
          /\ r.id \notin DOMAIN kvIcs \/ kvIcs[r.id] = r.body

\* C18: a feed request that rendered a new document has written both cache
\* keys, the document and then its watermark, when the watermark is greater
\* than 0 (until they expire the keys hold what the request wrote), and has
\* written neither key when the watermark is 0; either way it answered 200
\* with the new document.
C18_RenderCachedByWatermark ==
    \A p \in Feeds :
      LET r == proc[p]
      IN  (r.path = "feed" /\ r.pc = "done" /\ r.icsContent # NoDoc)
          => /\ r.status = 200
             /\ r.body = r.icsContent
             /\ IF r.latest > 0
                  THEN /\ Count(r.log, "put:ics") = 1
                       /\ Count(r.log, "put:lastupdate") = 1
                       /\ \A i, j \in DOMAIN r.log :
                            (r.log[i] = "put:ics" /\ r.log[j] = "put:lastupdate") => i < j
                       /\ r.id \in DOMAIN kvIcs => kvIcs[r.id] = r.icsContent
                       /\ r.id \in DOMAIN kvLastUpdate => kvLastUpdate[r.id] = r.latest
                  ELSE CachePuts(r.log) = {}

C18_Witness ==
    \E p \in Feeds :
      LET r == proc[p]
      IN  /\ r.path = "feed" /\ r.pc = "done" /\ r.status = 200
          /\ r.icsContent # NoDoc /\ r.latest > 0
          /\ CachePuts(r.log) # {}
          /\ r.id \in DOMAIN kvIcs /\ r.id \in DOMAIN kvLastUpdate
          /\ kvIcs[r.id] = r.body

\* ------------------------------------------------ properties of the session
Refreshing(rec) == rec.pc \in {"rfGet", "rfPost"}
ReturnedNull(rec) ==
    /\ rec.pc \in {"authRefreshed", "fdRefreshed", "fdRetry", "iaRefreshed"}
    /\ rec.pc = rec.rret
    /\ rec.newTok = 0

\* C19: a step of refreshAccessToken that finds no refresh token, or gets a
\* non-success answer or a network error from the token endpoint, returns
\* null and leaves the stored access token, refresh token and expiry
\* timestamp as they were; nothing is written before that step either.
C19_FailedRefreshKeepsTokens ==
    [][\A p \in Procs :
         (Refreshing(proc[p]) /\ proc'[p] # proc[p] /\ proc'[p].pc # "rfPutAccess")
         => /\ UNCHANGED <<kvAccess, kvRefresh, kvExpiresAt>>
            /\ proc'[p].pc = "rfPost" \/ ReturnedNull(proc'[p])]_vars

\* the token endpoint refused the stored refresh token: null came back and
\* the three keys are still stored
C19_Witness ==
    \E p \in Procs :
      /\ ReturnedNull(proc[p])
      /\ proc[p].rfTok # 0
      /\ proc[p].log # <<>> /\ proc[p].log[Len(proc[p].log)] = "up:token"
      /\ kvRefresh = proc[p].rfTok /\ kvAccess # 0 /\ kvExpiresAt # NoNum

Expired == kvExpiresAt # NoNum /\ now > kvExpiresAt
Authenticated(rec) == rec.pc # "done"
Refused(rec) == rec.pc = "done" /\ rec.status = 401
RefreshStored(l) == l # <<>> /\ l[Len(l)] = "put:expires"

C20_WitnessRefused ==
    \E p \in Apis :
      /\ Refused(proc[p]) /\ proc[p].rret = "iaRefreshed"
      /\ Expired /\ kvAccess # 0

\* C21 as stated: within the handling of one request at most one call to
\* the upstream token endpoint is made, whatever upstream answers 401.
C21_AsStated ==
    \A p \in Procs : Count(proc[p].log, "up:token") <= 1

\* C22 as stated: once two requests in flight have both refreshed the tokens
\* with success, the stored access token, refresh token and expiry all come
\* from one and the same answer of the token endpoint.
C22_AsStated ==
    (\A p \in Feeds : Count(proc[p].log, "put:expires") >= 1)
    => kvAccess = kvRefresh /\ kvAccess = expiresOf

\* ------------------------------------------------ properties of the titles
Titled == calc.fn = "title" /\ calc.done
TeamOf(customName, actualTeamName) ==
    IF customName # Null THEN customName
    ELSE IF actualTeamName # Null THEN actualTeamName ELSE "Team"

\* C23: the title of an event with is_game true and an opponent name is
\* "{team}: Game" when the team's removeOpponentNames preference is set and
\* "{team} vs. {opponent}" otherwise, {team} being the custom name if set,
\* else the upstream team name, else "Team".
C23_GameTitle ==
    Titled =>
      LET event == calc.arg[1]
          team  == TeamOf(calc.arg[2], calc.arg[4])
      IN  (event.is_game /\ event.opponent_name # Null)
          => calc.out = IF calc.arg[3] = "true"
                          THEN <<team \o ":", "Game">>
                          ELSE <<team, "vs.", event.opponent_name>>

C23_Witness ==
    /\ Titled
    /\ calc.arg[1].is_game /\ calc.arg[1].opponent_name = "Lions"
    /\ calc.arg[2] = "Cubs" /\ calc.arg[3] = "true"
    /\ calc.out = <<"Cubs:", "Game">>

\* C24 as stated: the title of a non-game event is "{team}: {formatted
\* title}" when formatted_title is present; else the multi-team title with
\* every occurrence of the upstream team name, in any case, replaced by the
\* custom name when both names are known; else the event label or "Event".
C24_AsStated ==
    Titled =>
      LET event  == calc.arg[1]
          custom == calc.arg[2]
          actual == calc.arg[4]
          multi  == event.formatted_title_for_multi_team
      IN  ~event.is_game
          => calc.out =
               IF event.formatted_title # <<>>
                 THEN <<TeamOf(custom, actual) \o ":">> \o event.formatted_title
               ELSE IF multi # <<>>
                 THEN IF custom # Null /\ actual # Null
                        THEN [i \in DOMAIN multi |->
                                IF Lower(multi[i]) = Lower(actual) THEN custom
                                                                   ELSE multi[i]]
                        ELSE multi
               ELSE IF event.label # Null THEN <<event.label>> ELSE <<"Event">>

\* ------------------------------------------ properties of the description
Described == calc.fn = "description" /\ calc.done
When(present, lines) == IF present THEN lines ELSE <<>>
OpponentLineOf(e) ==
    IF e.game_type = "Home" THEN <<"Home vs.", e.opponent_name>>
    ELSE IF e.game_type = "Away" THEN <<"Away at", e.opponent_name>>
    ELSE <<IF e.label # Null THEN e.label ELSE "TBD", "vs.", e.opponent_name>>
DetailsOf(e) ==
    When(e.additional_location_details \notin {Null, "TBD"},
         <<<<e.additional_location_details>>>>)
ArrivalLineOf(e) ==
    <<"Arrival:", LocalTime(e.arrival_date, e.time_zone_iana_name), "·",
      ToString(e.minutes_to_arrive_early), "min. early">>

Rendering == calc.fn = "blocks" /\ calc.done
Parts(line) == {line[i] : i \in DOMAIN line}
TextLines(block) ==
    {block.uid, block.summary, block.url}
      \cup {block.description[i] : i \in DOMAIN block.description}
      \cup {block.location[i] : i \in DOMAIN block.location}

\* C26 as stated: whatever fields of an event are absent, its id included,
\* no UID, SUMMARY, DESCRIPTION, LOCATION or URL line of the document contains
\* the text "undefined".
C26_AsStated ==
    Rendering =>
      \A i \in DOMAIN calc.out.blocks :
        \A line \in TextLines(calc.out.blocks[i]) : "undefined" \notin Parts(line)

WithStart(item) == item.data.start_date # NoNum
Complete(items) == \A i \in DOMAIN items : items[i].has_data

\* C28: a newly rendered document has exactly one event block for each
\* event that has a start_date, in the order of the input, and none for an
\* event without start_date; the block of an event without end_date ends 2
\* hours after its start.
C28_BlockPerStartedEvent ==
    (Rendering /\ Complete(calc.arg[1]))
    => LET kept   == SelectSeq(calc.arg[1], WithStart)
           blocks == calc.out.blocks
       IN  /\ ~calc.out.threw
           /\ Len(blocks) = Len(kept)
           /\ \A i \in DOMAIN blocks :
                LET e == kept[i].data
                IN  /\ blocks[i].uid[2] = (IF e.id = Null THEN "undefined" ELSE e.id)
                    /\ blocks[i].dtstart = e.start_date
                    /\ blocks[i].dtend = IF e.end_date # NoNum THEN e.end_date
                                          ELSE e.start_date + 7200000
                    /\ (blocks[i].location # <<>>) = (e.location_name # Null)

C28_Witness ==
    /\ Rendering
    /\ Len(calc.arg[1]) = 2 /\ Complete(calc.arg[1])
    /\ ~WithStart(calc.arg[1][1]) /\ WithStart(calc.arg[1][2])
    /\ calc.arg[1][2].data.end_date = NoNum
    /\ Len(calc.out.blocks) = 1
    /\ calc.out.blocks[1].dtend = 10 + 7200000

LookupFailed(item) ==
    /\ item.data.location_name # Null /\ item.data.location_id # Null
    /\ item.lookup \in {"null", "throw"}

\* C29: when the location lookup of an event fails (it throws, or comes to
\* null as for a non-success answer), rendering goes on to the end: the
\* block of that event is there with a LOCATION line holding location_name
\* only, and every other event with a start_date has its block.
C29_LookupFailureIsNotFatal ==
    (Rendering /\ Complete(calc.arg[1]))
    => LET kept   == SelectSeq(calc.arg[1], WithStart)
           blocks == calc.out.blocks
       IN  /\ ~calc.out.threw
           /\ Len(blocks) = Len(kept)
           /\ \A i \in DOMAIN blocks :
                LookupFailed(kept[i])
                => blocks[i].location = <<<<kept[i].data.location_name>>>>

C29_Witness ==
    /\ Rendering
    /\ Len(calc.arg[1]) = 2 /\ Complete(calc.arg[1])
    /\ LookupFailed(calc.arg[1][1]) /\ calc.arg[1][1].lookup = "throw"
    /\ WithStart(calc.arg[1][1])
    /\ calc.arg[1][2].lookup = "address" /\ WithStart(calc.arg[1][2])
    /\ Len(calc.out.blocks) = 2
    /\ calc.out.blocks[1].location = <<<<"Park">>>>
    /\ calc.out.blocks[2].location = <<<<"Park", Address>>>>

\* C27 as stated: whatever the upstream collection holds, items without a
\* data list included, a feed request for a valid token with a usable access
\* token never throws: it ends with a response of status 200, 304, 401 or 500.
C27_AsStated ==
    \A p \in Feeds :
      (proc[p].path = "feed" /\ IsJson(proc[p].mapping))
      => /\ proc[p].pc # "threw"
         /\ proc[p].pc = "done" => proc[p].status \in {200, 304, 401, 500}

\* C30 as stated: when the account behind the stored tokens has another email
\* than ALLOWED_USER_EMAIL, or ALLOWED_USER_EMAIL is not set, no request under
\* /api/ (listing, settings read, settings update) returns data or writes or
\* deletes a store key.
Denied == envAllowedEmail = Null \/ upEmail # envAllowedEmail
StoreWrites == {"put:token", "put:custom", "del:custom", "put:removeopp",
                "del:removeopp", "del:ics", "del:lastupdate"}
Served(rec) ==
    \/ rec.pc = "done" /\ rec.status = 200
    \/ \E i \in DOMAIN rec.log : rec.log[i] \in StoreWrites
C30_AsStated ==
    Denied => \A p \in Apis :
                proc[p].path \in {"teams", "settings", "settingsGet"} => ~Served(proc[p])

\* C31 as stated: however a settings update interleaves with a feed request
\* that is rendering for the same team, once both have finished the cache
\* holds no document rendered with the old preferences, so that the next
\* feed fetch gets a document titled with the new ones.
CachedDoc(id) ==
    IF id \in DOMAIN kvIcs /\ id \in DOMAIN kvLastUpdate THEN kvIcs[id] ELSE NoDoc
TitledAsStored(doc, teamId) ==
    doc.custom = kvCustom[teamId] /\ doc.removeOpp = kvRemoveOpp[teamId]
C31_AsStated ==
    (Quiet /\ CachedDoc(AllEvents) # NoDoc) => TitledAsStored(CachedDoc(AllEvents), "t1")

\* C32 as stated: a feed request without bypass flags that answers 200 with
\* the cached document answers with the event blocks that a new render of the
\* filtered events it has just fetched would have, whatever changed upstream
\* since the cache was written.
BlocksOf(events) == {<<e.id, e.updated_at>> : e \in events}
AnsweredFromCache(rec) ==
    /\ rec.path = "feed" /\ ~rec.cacheOff /\ ~rec.forceRefresh
    /\ rec.pc = "done" /\ rec.status = 200
    /\ rec.icsContent = NoDoc /\ rec.body = rec.cachedIcs
C32_AsStated ==
    \A p \in Feeds :
      AnsweredFromCache(proc[p]) => proc[p].body.evs = BlocksOf(proc[p].events)

\* C33 as stated: within one feed request, once a token refresh has succeeded
\* (in serveCalendar or inside fetchTeamSnapData), the event fetch that comes
\* after it is made with the refreshed access token, never with the access
\* token read before the refresh.
RefreshSucceeded(rec) == rec.newTok # 0
EventsAnswered(rec) == rec.evAnswer # Null
C33_AsStated ==
    \A p \in Feeds :
      (proc[p].path = "feed" /\ RefreshSucceeded(proc[p]) /\ EventsAnswered(proc[p]))
      => proc[p].accessToken = proc[p].newTok

\* C34 as stated: whenever a refresh token that upstream accepts is stored,
\* isAuthenticated returns true, refreshing if needed, also when the access
\* token is no longer in the store; an /api/ request is then not refused
\* with 401 (unless the token endpoint was asked and did not answer with a
\* new token set).
RefreshTokenAccepted == kvRefresh # 0 /\ kvRefresh = upRefresh
C34_AsStated ==
    \A p \in Apis :
      (Refused(proc[p]) /\ RefreshTokenAccepted) => Count(proc[p].log, "up:token") >= 1

\* C35 as stated: a client that sends back as If-Modified-Since the
\* Last-Modified value of a previous 200 response receives 304 as long as the
\* cache entry is unchanged, whatever the cached watermark in milliseconds,
\* also one that is not a whole number of seconds.
EchoesLastModified(rec) ==
    /\ rec.path = "feed" /\ ~rec.cacheOff /\ ~rec.forceRefresh
    /\ HasCache(rec) /\ rec.inm = NoEtag
    /\ rec.ims = toUTCString(rec.cachedLastUpdate)
C35_AsStated ==
    \A p \in Feeds :
      EchoesLastModified(proc[p]) => proc[p].pc = "done" /\ proc[p].status = 304
====
